---------------------------- MODULE Spec2Model ----------------------------
(***************************************************************************)
(* Model of the query-optimizer analyzer: analyze() (analyzer/index.ts),   *)
(* runRules() and the rule set (analyzer/rules.ts), and the App component  *)
(* that drives them (App.tsx).                                             *)
(*                                                                         *)
(* A text is a sequence of one-character strings.  Positions are the       *)
(* 0-based JavaScript string indices: the character at position i of s is  *)
(* s[i + 1].                                                               *)
(***************************************************************************)
EXTENDS Integers, Sequences, FiniteSets, TLC

(***************************************************************************)
(* Characters and JavaScript string primitives                             *)
(***************************************************************************)
LowerLetters ==
  << "a","b","c","d","e","f","g","h","i","j","k","l","m",
     "n","o","p","q","r","s","t","u","v","w","x","y","z" >>

UpperLetters ==
  << "A","B","C","D","E","F","G","H","I","J","K","L","M",
     "N","O","P","Q","R","S","T","U","V","W","X","Y","Z" >>

Digits == {"0","1","2","3","4","5","6","7","8","9"}

Range(f) == {f[i] : i \in DOMAIN f}

LowerSet == Range(LowerLetters)

UpperSet == Range(UpperLetters)

\* \s of a JavaScript regular expression, and the characters trim() strips
SpaceSet == {" ", "\n", "\t", "\r"}

IsSpace(c) == c \in SpaceSet

\* \w of a JavaScript regular expression
WordSet == LowerSet \cup UpperSet \cup Digits \cup {"_"}

IsWordCh(c) == c \in WordSet

UpperMap == [c \in LowerSet |-> UpperLetters[CHOOSE i \in DOMAIN LowerLetters : LowerLetters[i] = c]]

LowerMap == [c \in UpperSet |-> LowerLetters[CHOOSE i \in DOMAIN UpperLetters : UpperLetters[i] = c]]

UpperCh(c) == IF c \in LowerSet THEN UpperMap[c] ELSE c

LowerCh(c) == IF c \in UpperSet THEN LowerMap[c] ELSE c

toUpperCase(s) == [i \in 1..Len(s) |-> UpperCh(s[i])]

toLowerCase(s) == [i \in 1..Len(s) |-> LowerCh(s[i])]

\* s.slice(a, b) for 0 <= a, b
slice(s, a, b) ==
  LET e == IF b > Len(s) THEN Len(s) ELSE b
  IN  IF a >= e THEN << >> ELSE [i \in 1..(e - a) |-> s[a + i]]

\* the character at position i, or "" outside the text
At(s, i) == IF i >= 0 /\ i < Len(s) THEN s[i + 1] ELSE ""

\* s has needle at position i, compared exactly
HasAt(s, i, needle) ==
  /\ i >= 0
  /\ i + Len(needle) <= Len(s)
  /\ \A k \in 1..Len(needle) : s[i + k] = needle[k]

\* s.indexOf(needle, from): the first position >= from, or -1
indexOf(s, needle, from) ==
  LET First(hits) == IF hits = {} THEN -1 ELSE CHOOSE i \in hits : \A j \in hits : i <= j
  IN  First({i \in from..(Len(s) - Len(needle)) : HasAt(s, i, needle)})

\* s.includes(needle)
includes(s, needle) == indexOf(s, needle, 0) # -1

\* the text taken as it is, without trimming
trim_none(s) == s

\* s.trim()
trim(s) ==
  LET keep == {i \in 1..Len(s) : ~IsSpace(s[i])}
  IN  IF keep = {} THEN << >>
      ELSE LET lo == CHOOSE i \in keep : \A j \in keep : i <= j
               hi == CHOOSE i \in keep : \A j \in keep : i >= j
           IN  [i \in 1..(hi - lo + 1) |-> s[lo + i - 1]]

(***************************************************************************)
(* Regular-expression primitives.  A matcher M(s, i) gives the end         *)
(* position (exclusive) of the match of its expression that starts at      *)
(* position i of s, or -1 when the expression does not match there.        *)
(***************************************************************************)
\* \b at position i
WordBoundary(s, i) == IsWordCh(At(s, i - 1)) # IsWordCh(At(s, i))

\* a literal under the i flag at position i: the end position or -1
Lit(s, i, word) ==
  IF /\ i >= 0
     /\ i + Len(word) <= Len(s)
     /\ \A k \in 1..Len(word) : UpperCh(s[i + k]) = UpperCh(word[k])
    THEN i + Len(word)
    ELSE -1

\* \s* at position i (greedy): the position of the first non-space at or after i
RECURSIVE SkipSpace(_, _)
SkipSpace(s, i) == IF IsSpace(At(s, i)) THEN SkipSpace(s, i + 1) ELSE i

\* \s+ at position i (greedy): the end position or -1
Spaces1(s, i) == IF i >= 0 /\ IsSpace(At(s, i)) THEN SkipSpace(s, i) ELSE -1

\* \w* at position i (greedy)
RECURSIVE SkipWord(_, _)
SkipWord(s, i) == IF IsWordCh(At(s, i)) THEN SkipWord(s, i + 1) ELSE i

\* \w+ at position i (greedy): the end position or -1
Word1(s, i) == IF i >= 0 /\ IsWordCh(At(s, i)) THEN SkipWord(s, i) ELSE -1


\* A RegExp applied to a text s is represented by where it matches in s:
\* the match end of M at every position of s
Ends(s, M(_, _)) == [i \in 0..Len(s) |-> M(s, i)]

\* the first position >= from at which the expression matches, or -1
FirstMatch(ends, from) ==
  LET First(hits) == IF hits = {} THEN -1 ELSE CHOOSE i \in hits : \A j \in hits : i <= j
  IN  First({i \in DOMAIN ends : i >= from /\ ends[i] >= 0})

\* the loop `while ((m = global.exec(sql)) !== null)`: exec searches from
\* lastIndex and leaves lastIndex at the end of the match it returns
RECURSIVE ExecLoop(_, _)
ExecLoop(ends, lastIndex) ==
  LET Matched(i) ==
        IF i = -1 THEN << >>
        ELSE << [index |-> i, end |-> ends[i]] >> \o ExecLoop(ends, ends[i])
  IN  Matched(FirstMatch(ends, lastIndex))

\* RegExp.prototype.test of an expression without the g flag
test(re) == FirstMatch(re, 0) # -1

\* RegExp.prototype.test of an expression with the g flag, on an object
\* whose lastIndex is li: the search starts at li; a match leaves lastIndex
\* at its end, a failure resets it to 0
testG(s, re, li) ==
  LET Matched(i) ==
        IF i = -1 THEN [matched |-> FALSE, lastIndex |-> 0]
        ELSE [matched |-> TRUE, lastIndex |-> re[i]]
  IN  Matched(IF li > Len(s) THEN -1 ELSE FirstMatch(re, li))

(***************************************************************************)
(* Helpers of rules.ts                                                     *)
(***************************************************************************)
\* an optional value: absent (undefined) or present
None == << >>

Some(x) == << x >>

\* a title or message template with the numbers it embeds
Txt(text) == [text |-> text, args |-> << >>]

TxtN(text, args) == [text |-> text, args |-> args]

finding(ruleId, severity, title, message, category, fragment) ==
  [ruleId |-> ruleId, severity |-> severity, title |-> title,
   message |-> message, category |-> category, fragment |-> fragment,
   offset |-> None]

\* locate(sql, needle): the first case-insensitive occurrence, or undefined
locate(sql, needle) ==
  LET Span(idx) == IF idx = -1 THEN None ELSE Some([start |-> idx, end |-> idx + Len(needle)])
  IN  Span(indexOf(toLowerCase(sql), toLowerCase(needle), 0))

\* `const loc = locate(sql, needle); if (loc) findings[findings.length - 1].offset = loc;`
WithOffset(f, sql, needle) ==
  LET Set(loc) == IF loc # None THEN [f EXCEPT !.offset = loc] ELSE f
  IN  Set(locate(sql, needle))

\* findAll(sql, re): the texts of the successive matches of the new global
\* RegExp it builds from re, which starts at lastIndex 0
findAll(sql, re) ==
  LET Texts(ms) == [k \in 1..Len(ms) |-> slice(sql, ms[k].index, ms[k].end)]
  IN  Texts(ExecLoop(re, 0))

countMatches(sql, re) == Len(findAll(sql, re))

(***************************************************************************)
(* The regular expressions of regexRules, one matcher per literal          *)
(***************************************************************************)
W_LIST == << "l","i","s","t" >>

W_DISTINCT == << "D","I","S","T","I","N","C","T" >>

W_STRING_AGG == << "s","t","r","i","n","g","_","a","g","g" >>

W_ORDER == << "O","R","D","E","R" >>

W_BY == << "B","Y" >>

W_OVER == << "O","V","E","R" >>

W_GROUP == << "G","R","O","U","P" >>

W_LIKE == << "L","I","K","E" >>

W_SELECT == << "S","E","L","E","C","T" >>

W_UNION == << "U","N","I","O","N" >>

W_ALL == << "A","L","L" >>

W_COUNT == << "C","O","U","N","T" >>

W_NOT == << "N","O","T" >>

W_IN == << "I","N" >>

W_JSON_EACH == << "j","s","o","n","_","e","a","c","h" >>

W_LIST_TRANSFORM == << "l","i","s","t","_","t","r","a","n","s","f","o","r","m" >>

W_ARROW == << "-",">" >>

W_ARROW2 == << "-",">",">" >>


\* one given character at position i
Ch(s, i, c) == IF i >= 0 /\ At(s, i) = c THEN i + 1 ELSE -1

\* \b at position i, as a step of a match
B(s, i) == IF i >= 0 /\ WordBoundary(s, i) THEN i ELSE -1

\* /list\s*\(/gi, without the word boundary
M_listAgg_anywhere(s, i) == Ch(s, SkipSpace(s, Lit(s, i, W_LIST)), "(")

\* /\blist\s*\(/gi
M_listAgg(s, i) == Ch(s, SkipSpace(s, Lit(s, B(s, i), W_LIST)), "(")

\* /\bLIST\s*\(\s*DISTINCT\b/gi
M_listDistinct(s, i) == B(s, Lit(s, SkipSpace(s, M_listAgg(s, i)), W_DISTINCT))

\* /\bstring_agg\s*\(/i
M_stringAgg(s, i) == Ch(s, SkipSpace(s, Lit(s, B(s, i), W_STRING_AGG)), "(")

\* /\bORDER\s+BY\b/gi
M_orderBy(s, i) == B(s, Lit(s, Spaces1(s, Lit(s, B(s, i), W_ORDER)), W_BY))

\* /\bOVER\s*\(/gi
M_over(s, i) == Ch(s, SkipSpace(s, Lit(s, B(s, i), W_OVER)), "(")

\* /\bGROUP\s+BY\b/gi
M_groupBy(s, i) == B(s, Lit(s, Spaces1(s, Lit(s, B(s, i), W_GROUP)), W_BY))

\* /->>/g
M_jsonArrow(s, i) == Lit(s, i, W_ARROW2)

\* -> followed by any character, > included
M_jsonArrowObj_any(s, i) ==
  LET Other1(j) == IF j >= 0 /\ j < Len(s) THEN j + 1 ELSE -1
  IN  Other1(Lit(s, i, W_ARROW))

\* /->[^>]/g
M_jsonArrowObj(s, i) ==
  LET Other1(j) == IF j >= 0 /\ j < Len(s) /\ At(s, j) # ">" THEN j + 1 ELSE -1
  IN  Other1(Lit(s, i, W_ARROW))

\* /\bjson_each\s*\(/i
M_jsonEach(s, i) == Ch(s, SkipSpace(s, Lit(s, B(s, i), W_JSON_EACH)), "(")

\* /LIKE\s+'%[^']*%'/gi: [^']* cannot cross a quote, so the closing quote is
\* the first quote after the leading %, and the character before it is a
\* second %
M_like(s, i) ==
  LET Closed(j, q) == IF q >= 0 /\ q - 1 >= j /\ At(s, q - 1) = "%" THEN q + 1 ELSE -1
      Opened(j) == Closed(j, IF j >= 0 THEN indexOf(s, << "'" >>, j) ELSE -1)
  IN  Opened(Ch(s, Ch(s, Spaces1(s, Lit(s, i, W_LIKE)), "'"), "%"))

\* /SELECT\s+DISTINCT\s+\*/i
M_distinctStar(s, i) ==
  Ch(s, Spaces1(s, Lit(s, Spaces1(s, Lit(s, i, W_SELECT)), W_DISTINCT)), "*")

\* /\bUNION\b(?!\s+ALL\b)/gi
M_union(s, i) ==
  LET NotAll(e) == IF e >= 0 /\ B(s, Lit(s, Spaces1(s, e), W_ALL)) = -1 THEN e ELSE -1
  IN  NotAll(B(s, Lit(s, B(s, i), W_UNION)))

\* /COUNT\s*\(\s*DISTINCT\b/gi
M_countDistinct(s, i) ==
  B(s, Lit(s, SkipSpace(s, Ch(s, SkipSpace(s, Lit(s, i, W_COUNT)), "(")), W_DISTINCT))

\* /NOT\s+IN\s*\(\s*SELECT/i
M_notIn(s, i) ==
  Lit(s, SkipSpace(s, Ch(s, SkipSpace(s, Lit(s, Spaces1(s, Lit(s, i, W_NOT)), W_IN)), "(")), W_SELECT)

\* (?:\s*,\s*\w+)* from position i (greedy): the end position and the
\* number of repetitions
RECURSIVE CommaWords(_, _, _)
CommaWords(s, i, n) ==
  LET More(j) == IF j = -1 THEN [end |-> i, n |-> n] ELSE CommaWords(s, j, n + 1)
  IN  More(Word1(s, SkipSpace(s, Ch(s, SkipSpace(s, i), ","))))

\* /GROUP\s+BY\s+(?!ALL\b)\w+(?:\s*,\s*\w+){3,}/gi
M_groupByVerbose(s, i) ==
  LET Rest(w, r) == IF w >= 0 /\ r.n >= 3 THEN r.end ELSE -1
      Key(w) == Rest(w, CommaWords(s, w, 0))
      Keys(p) == Key(IF p >= 0 /\ B(s, Lit(s, p, W_ALL)) = -1 THEN Word1(s, p) ELSE -1)
  IN  Keys(Spaces1(s, Lit(s, Spaces1(s, Lit(s, i, W_GROUP)), W_BY)))

\* /\blist_transform\s*\(/i
M_listTransform(s, i) == Ch(s, SkipSpace(s, Lit(s, B(s, i), W_LIST_TRANSFORM)), "(")

(***************************************************************************)
(* regexRules: the text rules, in their order of declaration.  Each rule   *)
(* gives the findings it pushes.  Modelled here: rules 1, 2, 4, 5, 6, 8,   *)
(* 10, 12, 13, 14, 15, 18, 20, 22, 24, 25, 26 and 32 of rules.ts.  The     *)
(* suggestion string of a finding is a per-rule constant and is left out   *)
(* of the record.                                                          *)
(***************************************************************************)
N_STRING_AGG == << "s","t","r","i","n","g","_","a","g","g","(" >>

N_ARROW2 == << "-",">",">" >>

N_JSON_EACH == << "j","s","o","n","_","e","a","c","h","(" >>

N_SELECT_DISTINCT_STAR == << "S","E","L","E","C","T"," ","D","I","S","T","I","N","C","T"," ","*" >>

N_UNION == << "U","N","I","O","N" >>

N_NOT_IN == << "N","O","T"," ","I","N" >>

N_NOT_IN_SELECT == << "N","O","T"," ","I","N"," ","(","S","E","L","E","C","T" >>

N_LIST_TRANSFORM == << "l","i","s","t","_","t","r","a","n","s","f","o","r","m","(" >>

N_OUT_OF_MEMORY == << "O","U","T"," ","O","F"," ","M","E","M","O","R","Y" >>

N_OOM == << "O","O","M" >>

\* 1. list() aggregate
R_list(sql) ==
  LET Push(listAggMatches) ==
        LET count == Len(listAggMatches)
        IN  IF count > 0
              THEN << WithOffset(
                        finding("non-spillable-list", "error",
                                TxtN("list() aggregate cannot spill to disk (${count}x)", << count >>),
                                TxtN("The list() aggregate function is used ${count} time(s) in this query.", << count >>),
                                "memory", Some(listAggMatches[1])),
                        sql, listAggMatches[1]) >>
              ELSE << >>
  IN  Push(findAll(sql, Ends(sql, M_listAgg)))

R_listDistinct(sql) ==
  LET Push(listDistinctMatches) ==
        IF Len(listDistinctMatches) > 0
          THEN << WithOffset(
                    finding("non-spillable-list-distinct", "error",
                            Txt("LIST(DISTINCT ...) - double memory pressure"),
                            Txt("LIST(DISTINCT ...) combines two non-spillable operations"),
                            "memory", Some(listDistinctMatches[1])),
                    sql, listDistinctMatches[1]) >>
          ELSE << >>
  IN  Push(findAll(sql, Ends(sql, M_listDistinct)))

\* 2. string_agg()
R_stringAgg(sql) ==
  IF test(Ends(sql, M_stringAgg))
    THEN << WithOffset(
              finding("non-spillable-string-agg", "warning",
                      Txt("string_agg() cannot spill to disk"),
                      Txt("The string_agg() function cannot offload intermediate state to disk."),
                      "memory", Some(N_STRING_AGG)),
              sql, N_STRING_AGG) >>
    ELSE << >>

\* the thresholds taken strictly
R_blocking_strict(sql) ==
  LET Push(orderByCount, windowFuncCount, groupByCount) ==
        LET totalBlockingOps == orderByCount + windowFuncCount + groupByCount
        IN  IF totalBlockingOps > 8
              THEN << finding("many-blocking-operators", "error",
                              TxtN("${totalBlockingOps} blocking operators detected", << totalBlockingOps >>),
                              TxtN("This query contains ${orderByCount} ORDER BY, ${windowFuncCount} window function (OVER), and ${groupByCount} GROUP BY operations.",
                                   << orderByCount, windowFuncCount, groupByCount >>),
                              "memory", None) >>
            ELSE IF totalBlockingOps > 5
              THEN << finding("many-blocking-operators", "warning",
                              TxtN("${totalBlockingOps} blocking operators in one query", << totalBlockingOps >>),
                              TxtN("This query has ${orderByCount} ORDER BY, ${windowFuncCount} window functions, and ${groupByCount} GROUP BY operations.",
                                   << orderByCount, windowFuncCount, groupByCount >>),
                              "memory", None) >>
            ELSE << >>
  IN  Push(countMatches(sql, Ends(sql, M_orderBy)),
           countMatches(sql, Ends(sql, M_over)),
           countMatches(sql, Ends(sql, M_groupBy)))

\* 4. Multiple blocking operators
R_blocking(sql) ==
  LET Push(orderByCount, windowFuncCount, groupByCount) ==
        LET totalBlockingOps == orderByCount + windowFuncCount + groupByCount
        IN  IF totalBlockingOps >= 8
              THEN << finding("many-blocking-operators", "error",
                              TxtN("${totalBlockingOps} blocking operators detected", << totalBlockingOps >>),
                              TxtN("This query contains ${orderByCount} ORDER BY, ${windowFuncCount} window function (OVER), and ${groupByCount} GROUP BY operations.",
                                   << orderByCount, windowFuncCount, groupByCount >>),
                              "memory", None) >>
            ELSE IF totalBlockingOps >= 5
              THEN << finding("many-blocking-operators", "warning",
                              TxtN("${totalBlockingOps} blocking operators in one query", << totalBlockingOps >>),
                              TxtN("This query has ${orderByCount} ORDER BY, ${windowFuncCount} window functions, and ${groupByCount} GROUP BY operations.",
                                   << orderByCount, windowFuncCount, groupByCount >>),
                              "memory", None) >>
            ELSE << >>
  IN  Push(countMatches(sql, Ends(sql, M_orderBy)),
           countMatches(sql, Ends(sql, M_over)),
           countMatches(sql, Ends(sql, M_groupBy)))

\* 5. JSON extraction
R_json(sql) ==
  LET Push(jsonArrowCount, jsonArrowObjCount) ==
        LET totalJsonOps == jsonArrowCount + jsonArrowObjCount
        IN  IF totalJsonOps >= 20
              THEN << WithOffset(
                        finding("heavy-json-extraction", "warning",
                                TxtN("Heavy JSON extraction (${totalJsonOps} operations)", << totalJsonOps >>),
                                TxtN("This query performs ${totalJsonOps} JSON extraction operations (->> and ->).", << totalJsonOps >>),
                                "performance", Some(N_ARROW2)),
                        sql, N_ARROW2) >>
            ELSE IF totalJsonOps >= 8
              THEN << WithOffset(
                        finding("moderate-json-extraction", "info",
                                TxtN("Moderate JSON extraction (${totalJsonOps} operations)", << totalJsonOps >>),
                                TxtN("This query performs ${totalJsonOps} JSON extraction operations.", << totalJsonOps >>),
                                "performance", Some(N_ARROW2)),
                        sql, N_ARROW2) >>
            ELSE << >>
  IN  Push(countMatches(sql, Ends(sql, M_jsonArrow)),
           countMatches(sql, Ends(sql, M_jsonArrowObj)))

\* 6. json_each
R_jsonEach(sql) ==
  IF test(Ends(sql, M_jsonEach))
    THEN << WithOffset(
              finding("json-each-expansion", "warning",
                      Txt("json_each() row expansion"),
                      Txt("json_each() explodes a JSON array or object into rows."),
                      "memory", Some(N_JSON_EACH)),
              sql, N_JSON_EACH) >>
    ELSE << >>

W_DESC == << "D","E","S","C" >>

W_LIMIT == << "L","I","M","I","T" >>

\* \w+(?:\.\w+)? at position i: the end position or -1
ColumnName(s, i) ==
  LET Dotted(w, d) == IF d >= 0 THEN d ELSE w
      Name(w) == IF w = -1 THEN -1 ELSE Dotted(w, Word1(s, Ch(s, w, ".")))
  IN  Name(Word1(s, i))

\* \s*\n\s* at position i: the white space from i on, which must hold a
\* line break; the end position or -1
LineBreak(s, i) ==
  LET Run(e) == IF \E k \in i..(e - 1) : At(s, k) = "\n" THEN e ELSE -1
  IN  IF i < 0 THEN -1 ELSE Run(SkipSpace(s, i))

\* /ORDER\s+BY\s+\w+(?:\.\w+)?\s+DESC\s*\n\s*LIMIT\s+1/gi
M_orderByLimit(s, i) ==
  LET Desc(c) == Lit(s, Spaces1(s, c), W_DESC)
      Column(o) == Desc(ColumnName(s, o))
  IN  Ch(s, Spaces1(s, Lit(s, LineBreak(s, Column(Spaces1(s, Lit(s, Spaces1(s, Lit(s, i, W_ORDER)), W_BY)))), W_LIMIT)), "1")

\* 8. Repeated ORDER BY ... DESC LIMIT 1
R_orderByLimit(sql) ==
  LET Push(orderByLimitMatches) ==
        IF Len(orderByLimitMatches) >= 2
          THEN << WithOffset(
                    finding("repeated-order-limit-1", "warning",
                            TxtN("ORDER BY ... DESC LIMIT 1 repeated ${orderByLimitMatches.length}x", << Len(orderByLimitMatches) >>),
                            TxtN("This query uses the ORDER BY ... DESC LIMIT 1 pattern ${orderByLimitMatches.length} times", << Len(orderByLimitMatches) >>),
                            "performance", Some(orderByLimitMatches[1])),
                    sql, orderByLimitMatches[1]) >>
          ELSE << >>
  IN  Push(findAll(sql, Ends(sql, M_orderByLimit)))

\* 10. LIKE '%...%': one finding per match
R_like(sql) ==
  LET Push(likePatterns) ==
        [k \in 1..Len(likePatterns) |->
           WithOffset(
             finding("leading-wildcard-like", "warning",
                     Txt("LIKE with leading wildcard"),
                     Txt("A LIKE pattern starting with '%' prevents DuckDB from using zone maps"),
                     "performance", Some(likePatterns[k])),
             sql, likePatterns[k])]
  IN  Push(findAll(sql, Ends(sql, M_like)))

\* 12. SELECT DISTINCT *
R_distinctStar(sql) ==
  IF test(Ends(sql, M_distinctStar))
    THEN << WithOffset(
              finding("distinct-star", "warning",
                      Txt("SELECT DISTINCT *"),
                      Txt("DISTINCT * forces DuckDB to hash or sort ALL columns to find unique rows."),
                      "memory", Some(N_SELECT_DISTINCT_STAR)),
              sql, N_SELECT_DISTINCT_STAR) >>
    ELSE << >>

\* 13. UNION without ALL
R_union(sql) ==
  LET unionMatches == findAll(sql, Ends(sql, M_union))
  IN  IF Len(unionMatches) > 0
        THEN << WithOffset(
                  finding("union-without-all", "info",
                          Txt("UNION without ALL"),
                          Txt("UNION (without ALL) removes duplicate rows by hashing the entire result set."),
                          "performance", Some(N_UNION)),
                  sql, N_UNION) >>
        ELSE << >>

\* 14. COUNT(DISTINCT ...)
R_countDistinct(sql) ==
  LET Push(countDistinct) ==
        IF Len(countDistinct) > 0
          THEN << WithOffset(
                    finding("count-distinct", "info",
                            TxtN("COUNT(DISTINCT ...) detected (${countDistinct.length}x)", << Len(countDistinct) >>),
                            TxtN("COUNT(DISTINCT) appears ${countDistinct.length} time(s).", << Len(countDistinct) >>),
                            "memory", Some(countDistinct[1])),
                    sql, countDistinct[1]) >>
          ELSE << >>
  IN  Push(findAll(sql, Ends(sql, M_countDistinct)))

\* 15. NOT IN with subquery
R_notIn(sql) ==
  IF test(Ends(sql, M_notIn))
    THEN << WithOffset(
              finding("not-in-subquery", "warning",
                      Txt("NOT IN with subquery"),
                      Txt("NOT IN with a subquery can be slow"),
                      "performance", Some(N_NOT_IN_SELECT)),
              sql, N_NOT_IN) >>
    ELSE << >>

W_AS == << "A","S" >>

\* /\bAS\s*\(/g, applied to the upper-cased text
M_asParen(s, i) == Ch(s, SkipSpace(s, Lit(s, B(s, i), W_AS)), "(")

\* 18. Many CTEs
R_manyCtes(sql) ==
  LET Push(cteCount) ==
        IF cteCount > 10
          THEN << finding("many-ctes", "warning",
                          TxtN("${cteCount} CTEs detected", << cteCount >>),
                          TxtN("This query has ${cteCount} CTEs. DuckDB materializes each CTE, meaning all intermediate results are held in memory simultaneously.", << cteCount >>),
                          "memory", None) >>
        ELSE IF cteCount > 5
          THEN << finding("many-ctes", "info",
                          TxtN("${cteCount} CTEs detected", << cteCount >>),
                          TxtN("This query has ${cteCount} CTEs. DuckDB materializes each CTE.", << cteCount >>),
                          "memory", None) >>
        ELSE << >>
      Upper(upper) == Push(countMatches(upper, Ends(upper, M_asParen)))
  IN  Upper(toUpperCase(sql))

W_CAST == << "C","A","S","T" >>

W_COLONS == << ":",":" >>

\* (?:BOOLEAN|INTEGER|DOUBLE|BIGINT|DATE|TIMESTAMP)
CastCallTypes ==
  { << "B","O","O","L","E","A","N" >>, << "I","N","T","E","G","E","R" >>,
    << "D","O","U","B","L","E" >>, << "B","I","G","I","N","T" >>,
    << "D","A","T","E" >>, << "T","I","M","E","S","T","A","M","P" >> }

\* (?:BOOLEAN|INTEGER|DOUBLE|BIGINT|TIMESTAMPTZ?): the last alternative is
\* TIMESTAMPT followed by an optional Z
CastColonTypes ==
  { << "B","O","O","L","E","A","N" >>, << "I","N","T","E","G","E","R" >>,
    << "D","O","U","B","L","E" >>, << "B","I","G","I","N","T" >>,
    << "T","I","M","E","S","T","A","M","P","T" >>,
    << "T","I","M","E","S","T","A","M","P","T","Z" >> }

\* the greatest of a set of end positions, or -1 when it holds none
LastEnd(ends) == IF ends = {} THEN -1 ELSE CHOOSE e \in ends : \A f \in ends : f <= e

\* CAST\s*\([^)]+AS\s+(?:...)\s*\) at position i: [^)]+ cannot cross a
\* closing parenthesis, so the match ends at the first one after the opening
\* parenthesis, and AS, the type and the spaces must end exactly there
M_castCall(s, i) ==
  LET Closed(o, c) ==
        IF c >= 0 /\ \E j \in (o + 1)..c : \E type \in CastCallTypes :
                       SkipSpace(s, Lit(s, Spaces1(s, Lit(s, j, W_AS)), type)) = c
          THEN c + 1 ELSE -1
      Opened(o) == Closed(o, IF o >= 0 THEN indexOf(s, << ")" >>, o) ELSE -1)
  IN  Opened(Ch(s, SkipSpace(s, Lit(s, i, W_CAST)), "("))

\* ::\s*(?:...)\b at position i
M_castColons(s, i) ==
  LET Typed(j) == LastEnd({B(s, Lit(s, j, type)) : type \in CastColonTypes} \ {-1})
  IN  Typed(SkipSpace(s, Lit(s, i, W_COLONS)))

\* /(?:CAST\s*\([^)]+AS\s+(?:...)\s*\)|::\s*(?:...)\b)/gi
M_castOps(s, i) ==
  LET Else(call) == IF call >= 0 THEN call ELSE M_castColons(s, i)
  IN  Else(M_castCall(s, i))

\* 20. Excessive CAST operations
R_casts(sql) ==
  LET Push(castOps) ==
        IF Len(castOps) > 8
          THEN << finding("excessive-casts", "info",
                          TxtN("${castOps.length} type cast operations", << Len(castOps) >>),
                          TxtN("This query has ${castOps.length} explicit type casts.", << Len(castOps) >>),
                          "schema", None) >>
          ELSE << >>
  IN  Push(findAll(sql, Ends(sql, M_castOps)))

\* the expression object created once and shared by all calls: it keeps
\* the lastIndex the previous call left
RegExpLiteral_hoisted(left) == left

\* A regular-expression literal in a function body creates a new RegExp
\* object each time the body runs, so the object a call tests starts with
\* lastIndex 0 whatever `left`, the lastIndex left on the object of the
\* previous call, was.
RegExpLiteral(left) == 0

\* 22. GROUP BY ALL reminder: groupByPattern has the g flag and is used with test()
R_groupByVerbose(sql, left) ==
  IF testG(sql, Ends(sql, M_groupByVerbose), RegExpLiteral(left)).matched
    THEN << finding("group-by-verbose", "info",
                    Txt("Verbose GROUP BY"),
                    Txt("DuckDB supports GROUP BY ALL"),
                    "best-practice", None) >>
    ELSE << >>

\* the lastIndex of groupByPattern after regexRules has run
groupByPatternLastIndex(sql, left) ==
  testG(sql, Ends(sql, M_groupByVerbose), RegExpLiteral(left)).lastIndex

\* 24. MotherDuck duckling size hint
R_ducklingSize(sql) ==
  LET Push(upper) ==
        IF includes(upper, N_OUT_OF_MEMORY) \/ includes(upper, N_OOM)
          THEN << finding("md-duckling-size", "info",
                          Txt("Consider a larger Duckling size"),
                          Txt("If this query runs out of memory on MotherDuck"),
                          "memory", None) >>
          ELSE << >>
  IN  Push(toUpperCase(sql))

\* 25. list_transform
R_listTransform(sql) ==
  IF test(Ends(sql, M_listTransform))
    THEN << WithOffset(
              finding("list-transform", "info",
                      Txt("list_transform() - in-memory list processing"),
                      Txt("list_transform() applies a lambda to every element of a list in memory."),
                      "memory", Some(N_LIST_TRANSFORM)),
              sql, N_LIST_TRANSFORM) >>
    ELSE << >>

W_PIVOT == << "P","I","V","O","T" >>

W_UNPIVOT == << "U","N","P","I","V","O","T" >>

W_ON == << "O","N" >>

W_USING == << "U","S","I","N","G" >>

N_pivot == << "p","i","v","o","t" >>

\* /\bPIVOT\b/i
M_pivot(s, i) == B(s, Lit(s, B(s, i), W_PIVOT))

\* /\bUNPIVOT\b/i
M_unpivot(s, i) == B(s, Lit(s, B(s, i), W_UNPIVOT))

\* /\bPIVOT\b[\s\S]*?\bUSING\b/i: the first USING at or after the end of PIVOT
M_pivotUsing(s, i) ==
  LET Using(j) == B(s, Lit(s, B(s, j), W_USING))
      Lazy(p, us) == IF p = -1 \/ us = {} THEN -1 ELSE Using(CHOOSE j \in us : \A k \in us : j <= k)
      Pivot(p) == Lazy(p, {j \in 0..Len(s) : j >= p /\ Using(j) >= 0})
  IN  Pivot(M_pivot(s, i))

\* the finding of rule 26
PivotFinding ==
  finding("non-spillable-pivot", "error",
          Txt("PIVOT uses list() internally - cannot spill to disk"),
          Txt("DuckDB's PIVOT statement internally uses the list() aggregate"),
          "memory", Some(N_pivot))

\* 26. PIVOT
R_pivot(sql) ==
  IF \/ test(Ends(sql, M_pivot)) /\ ~test(Ends(sql, M_unpivot))
     \/ test(Ends(sql, M_pivotUsing))
    THEN << PivotFinding >>
    ELSE << >>

\* [\d.]* at position i (greedy)
RECURSIVE SkipNumber(_, _)
SkipNumber(s, i) == IF At(s, i) \in Digits \cup {"."} THEN SkipNumber(s, i + 1) ELSE i

\* (?:'[^']*'|[\d.]+) at position i: the end position or -1
InLiteral(s, i) ==
  LET Quoted(q) == IF q >= 0 THEN q + 1 ELSE -1
  IN  IF i < 0 THEN -1
      ELSE IF At(s, i) = "'" THEN Quoted(indexOf(s, << "'" >>, i + 1))
      ELSE IF At(s, i) \in Digits \cup {"."} THEN SkipNumber(s, i)
      ELSE -1

\* (?:\s*(?:'[^']*'|[\d.]+)\s*,)* from position i (greedy): the end position
\* and the number of repetitions
RECURSIVE InItems(_, _, _)
InItems(s, i, n) ==
  LET More(j) == IF j = -1 THEN [end |-> i, n |-> n] ELSE InItems(s, j, n + 1)
  IN  More(Ch(s, SkipSpace(s, InLiteral(s, SkipSpace(s, i))), ","))

\* the same with {50,}
M_largeInList_fifty(s, i) ==
  LET Rest(r) == IF r.n >= 50 THEN r.end ELSE -1
      Opened(o) == IF o >= 0 THEN Rest(InItems(s, o, 0)) ELSE -1
  IN  Opened(Ch(s, SkipSpace(s, Lit(s, B(s, i), W_IN)), "("))

\* /\bIN\s*\((?:\s*(?:'[^']*'|[\d.]+)\s*,){49,}/gi
M_largeInList(s, i) ==
  LET Rest(r) == IF r.n >= 49 THEN r.end ELSE -1
      Opened(o) == IF o >= 0 THEN Rest(InItems(s, o, 0)) ELSE -1
  IN  Opened(Ch(s, SkipSpace(s, Lit(s, B(s, i), W_IN)), "("))

\* 32. IN (...) with 50+ literal values
R_largeInList(sql) ==
  LET Push(inListMatches) ==
        IF Len(inListMatches) > 0
          THEN << WithOffset(
                    finding("large-in-list", "warning",
                            Txt("Large IN list (50+ values)"),
                            Txt("An IN clause with 50+ literal values adds significant parse overhead"),
                            "performance", Some(slice(inListMatches[1], 0, 40) \o << ".",".","." >>)),
                    sql, slice(inListMatches[1], 0, 30)) >>
          ELSE << >>
  IN  Push(findAll(sql, Ends(sql, M_largeInList)))

regexRules(sql, left) ==
  R_list(sql) \o R_listDistinct(sql) \o R_stringAgg(sql) \o R_blocking(sql)
    \o R_json(sql) \o R_jsonEach(sql) \o R_orderByLimit(sql) \o R_like(sql) \o R_distinctStar(sql)
    \o R_union(sql) \o R_countDistinct(sql) \o R_notIn(sql)
    \o R_manyCtes(sql) \o R_casts(sql)
    \o R_groupByVerbose(sql, left.groupByPattern) \o R_ducklingSize(sql) \o R_listTransform(sql)
    \o R_pivot(sql) \o R_largeInList(sql)

(***************************************************************************)
(* The parser's tree (type AST = any).  A JavaScript value is tagged:      *)
(* Nil is null or undefined, Str a string, Other a truthy primitive that   *)
(* is not a string (true, a number), Arr an array, Obj an object with the  *)
(* properties it has.                                                      *)
(***************************************************************************)
Nil == [t |-> "nil"]

Other == [t |-> "other"]

Str(cs) == [t |-> "string", v |-> cs]

Arr(xs) == [t |-> "array", v |-> xs]

Obj(props) == [t |-> "object", v |-> props]

\* x.name for x that is neither null nor undefined
Prop(x, name) ==
  IF x.t = "object" /\ name \in DOMAIN x.v THEN x.v[name] ELSE Nil

\* x.name throws a TypeError when x is null or undefined
IsNil(x) == x.t = "nil"

Truthy(x) == ~IsNil(x) /\ ~(x.t = "string" /\ x.v = << >>)

\* x === 'lit'
Is(x, cs) == x.t = "string" /\ x.v = cs

\* Array.isArray(x) ? x : [x]
AsList(x) == IF x.t = "array" THEN x.v ELSE << x >>

N_select == << "s","e","l","e","c","t" >>

N_star == << "s","t","a","r" >>

N_STAR == << "*" >>

N_SELECT_STAR == << "S","E","L","E","C","T"," ","*" >>

N_select_star == << "s","e","l","e","c","t"," ","*" >>

N_ORDER_BY == << "O","R","D","E","R"," ","B","Y" >>

N_order_by == << "o","r","d","e","r"," ","b","y" >>

N_CROSS_JOIN == << "C","R","O","S","S"," ","J","O","I","N" >>

N_cross_join == << "c","r","o","s","s"," ","j","o","i","n" >>

N_COMMA_SPACE == << ","," " >>

(***************************************************************************)
(* A rule either returns its findings or throws                            *)
(***************************************************************************)
Raise == [raised |-> TRUE, findings |-> << >>]

Ok(fs) == [raised |-> FALSE, findings |-> fs]

Cat(a, b) == IF a.raised \/ b.raised THEN Raise ELSE Ok(a.findings \o b.findings)

\* the results of the iterations of a loop, in order
RECURSIVE CatAll(_)
CatAll(rs) == IF rs = << >> THEN Ok(<< >>) ELSE Cat(Head(rs), CatAll(Tail(rs)))

\* the projection of the node is looked at, its FROM subqueries are not
checkSelectStar_shallow(ast, sql) ==
  IF ~Is(Prop(ast, "type"), N_select) THEN Ok(<< >>)
  ELSE IF Is(Prop(ast, "columns"), N_STAR)
    THEN Ok(<< WithOffset(
                 finding("select-star", "warning", Txt("SELECT * detected"),
                         Txt("SELECT * reads every column from the table."),
                         "performance", Some(N_SELECT_STAR)),
                 sql, N_select_star) >>)
  ELSE IF Prop(ast, "columns").t = "array"
    THEN CatAll([k \in 1..Len(Prop(ast, "columns").v) |->
           IF IsNil(Prop(ast, "columns").v[k]) THEN Raise
           ELSE IF Is(Prop(Prop(Prop(ast, "columns").v[k], "expr"), "type"), N_star)
             THEN Ok(<< finding("select-star", "warning", Txt("SELECT * detected"),
                                Txt("SELECT * reads every column."),
                                "performance", Some(N_STAR)) >>)
           ELSE Ok(<< >>)])
  ELSE Ok(<< >>)

RECURSIVE checkSelectStar(_, _)
checkSelectStar(ast, sql) ==
  IF ~Is(Prop(ast, "type"), N_select) THEN Ok(<< >>)
  ELSE
    LET cols == Prop(ast, "columns")
        own ==
          IF Is(cols, N_STAR)
            THEN Ok(<< WithOffset(
                         finding("select-star", "warning", Txt("SELECT * detected"),
                                 Txt("SELECT * reads every column from the table."),
                                 "performance", Some(N_SELECT_STAR)),
                         sql, N_select_star) >>)
          ELSE IF cols.t = "array"
            THEN CatAll([k \in 1..Len(cols.v) |->
                   LET col == cols.v[k]
                   IN  IF IsNil(col) THEN Raise
                       ELSE IF Truthy(Prop(col, "expr")) /\ Is(Prop(Prop(col, "expr"), "type"), N_star)
                         THEN Ok(<< finding("select-star", "warning", Txt("SELECT * detected"),
                                            Txt("SELECT * reads every column."),
                                            "performance", Some(N_STAR)) >>)
                       ELSE Ok(<< >>)])
          ELSE Ok(<< >>)
        from == Prop(ast, "from")
        sub ==
          IF Truthy(from)
            THEN CatAll([k \in 1..Len(AsList(from)) |->
                   LET fromItem == AsList(from)[k]
                   IN  IF IsNil(fromItem) THEN Raise
                       ELSE IF Truthy(Prop(fromItem, "expr")) /\ Truthy(Prop(Prop(fromItem, "expr"), "ast"))
                         THEN checkSelectStar(Prop(Prop(fromItem, "expr"), "ast"), sql)
                       ELSE Ok(<< >>)])
            ELSE Ok(<< >>)
    IN  Cat(own, sub)

\* an ordering clause is reported whether or not there is a row limit
checkOrderByWithoutLimit_anyOrder(ast, sql) ==
  IF ~Is(Prop(ast, "type"), N_select) THEN Ok(<< >>)
  ELSE IF Truthy(Prop(ast, "orderby"))
    THEN Ok(<< WithOffset(
                 finding("order-without-limit", "warning", Txt("ORDER BY without LIMIT"),
                         Txt("Sorting the entire result set requires materializing all rows in memory"),
                         "memory", Some(N_ORDER_BY)),
                 sql, N_order_by) >>)
  ELSE Ok(<< >>)

checkOrderByWithoutLimit(ast, sql) ==
  IF ~Is(Prop(ast, "type"), N_select) THEN Ok(<< >>)
  ELSE IF Truthy(Prop(ast, "orderby")) /\ ~Truthy(Prop(ast, "limit"))
    THEN Ok(<< WithOffset(
                 finding("order-without-limit", "warning", Txt("ORDER BY without LIMIT"),
                         Txt("Sorting the entire result set requires materializing all rows in memory"),
                         "memory", Some(N_ORDER_BY)),
                 sql, N_order_by) >>)
  ELSE Ok(<< >>)

checkCrossJoin(ast, sql) ==
  IF ~Is(Prop(ast, "type"), N_select) \/ ~Truthy(Prop(ast, "from")) THEN Ok(<< >>)
  ELSE
    LET fromList == AsList(Prop(ast, "from"))
    IN  CatAll([k \in 1..Len(fromList) |->
          LET item == fromList[k]
          IN  IF IsNil(item) THEN Raise
              ELSE IF Is(Prop(item, "join"), N_CROSS_JOIN)
                THEN Ok(<< WithOffset(
                             finding("cross-join", "warning", Txt("CROSS JOIN detected"),
                                     Txt("A CROSS JOIN produces the Cartesian product of both tables"),
                                     "memory", Some(N_CROSS_JOIN)),
                             sql, N_cross_join) >>)
              ELSE Ok(<< >>)])

RECURSIVE checkNestedSubqueries(_, _, _)
RECURSIVE checkExprForSubqueries(_, _, _)
checkNestedSubqueries(ast, sql, depth) ==
  IF ~Is(Prop(ast, "type"), N_select) THEN Ok(<< >>)
  ELSE
    LET own ==
          IF depth >= 3
            THEN Ok(<< finding("deeply-nested-subquery", "warning", Txt("Deeply nested subquery"),
                               Txt("Subqueries nested 3+ levels deep are hard to optimize."),
                               "performance", None) >>)
            ELSE Ok(<< >>)
        where == Prop(ast, "where")
        inWhere == IF Truthy(where) THEN checkExprForSubqueries(where, sql, depth) ELSE Ok(<< >>)
        from == Prop(ast, "from")
        inFrom ==
          IF Truthy(from)
            THEN CatAll([k \in 1..Len(AsList(from)) |->
                   LET f == AsList(from)[k]
                   IN  IF IsNil(f) THEN Raise
                       ELSE IF ~IsNil(Prop(f, "expr")) /\ Truthy(Prop(Prop(f, "expr"), "ast"))
                         THEN checkNestedSubqueries(Prop(Prop(f, "expr"), "ast"), sql, depth + 1)
                       ELSE Ok(<< >>)])
            ELSE Ok(<< >>)
    IN  Cat(own, Cat(inWhere, inFrom))

\* the findings checkExprForSubqueries pushes onto its findings argument
checkExprForSubqueries(expr, sql, depth) ==
  IF ~Truthy(expr) THEN Ok(<< >>) ELSE
  LET inAst ==
        IF Truthy(Prop(expr, "ast"))
          THEN checkNestedSubqueries(Prop(expr, "ast"), sql, depth + 1)
          ELSE Ok(<< >>)
      inLeft ==
        IF Truthy(Prop(expr, "left"))
          THEN checkExprForSubqueries(Prop(expr, "left"), sql, depth)
          ELSE Ok(<< >>)
      inRight ==
        IF Truthy(Prop(expr, "right"))
          THEN checkExprForSubqueries(Prop(expr, "right"), sql, depth)
          ELSE Ok(<< >>)
      argsExpr == IF IsNil(Prop(expr, "args")) THEN Nil ELSE Prop(Prop(expr, "args"), "expr")
      inArgs ==
        IF Truthy(argsExpr)
          THEN CatAll([k \in 1..Len(AsList(argsExpr)) |->
                 LET a == AsList(argsExpr)[k]
                 IN  IF IsNil(a) THEN Raise
                     ELSE IF Truthy(Prop(a, "ast"))
                       THEN checkNestedSubqueries(Prop(a, "ast"), sql, depth + 1)
                     ELSE Ok(<< >>)])
          ELSE Ok(<< >>)
  IN  Cat(inAst, Cat(inLeft, Cat(inRight, inArgs)))

\* names.join(sep)
RECURSIVE join(_, _)
join(names, sep) ==
  IF names = << >> THEN << >>
  ELSE IF Len(names) = 1 THEN names[1]
  ELSE names[1] \o sep \o join(Tail(names), sep)

\* f.table || f.as || '' as the text Array.prototype.join renders; a truthy
\* name that is not a string is rendered as "?"
ItemName(f) ==
  LET n == IF Truthy(Prop(f, "table")) THEN Prop(f, "table") ELSE Prop(f, "as")
  IN  IF ~Truthy(n) THEN << >> ELSE IF n.t = "string" THEN n.v ELSE << "?" >>

\* the WHERE clause is not looked at
checkJoinWithoutCondition_anyWhere(ast, sql) ==
  IF ~Is(Prop(ast, "type"), N_select) \/ ~Truthy(Prop(ast, "from")) THEN Ok(<< >>)
  ELSE
    LET fromList == AsList(Prop(ast, "from"))
        implicit ==
          IF Len(fromList) > 1
            THEN IF \E k \in 1..Len(fromList) : IsNil(fromList[k]) THEN Raise
                 ELSE IF \A k \in 1..Len(fromList) : ~Truthy(Prop(fromList[k], "join"))
                   THEN Ok(<< finding("implicit-cross-join", "error",
                                      Txt("Implicit cross join (comma join without WHERE)"),
                                      Txt("Listing tables separated by commas without a WHERE clause creates a Cartesian product."),
                                      "memory", None) >>)
                 ELSE Ok(<< >>)
            ELSE Ok(<< >>)
        explicit ==
          CatAll([k \in 1..Len(fromList) |->
            IF IsNil(fromList[k]) THEN Raise
            ELSE IF /\ Truthy(Prop(fromList[k], "join"))
                    /\ ~Is(Prop(fromList[k], "join"), N_CROSS_JOIN)
                    /\ ~Truthy(Prop(fromList[k], "on"))
              THEN IF Prop(fromList[k], "join").t # "string" THEN Raise
                   ELSE Ok(<< finding("join-without-on", "warning", Txt("JOIN without ON condition"),
                                      Txt("A JOIN without an ON condition may produce a Cartesian product"),
                                      "performance", Some(Prop(fromList[k], "join").v)) >>)
            ELSE Ok(<< >>)])
    IN  Cat(implicit, explicit)

checkJoinWithoutCondition(ast, sql) ==
  IF ~Is(Prop(ast, "type"), N_select) \/ ~Truthy(Prop(ast, "from")) THEN Ok(<< >>)
  ELSE
    LET fromList == AsList(Prop(ast, "from"))
        \* fromList.some((f) => f.join) stops at the first item with a join
        joined == {k \in 1..Len(fromList) : ~IsNil(fromList[k]) /\ Truthy(Prop(fromList[k], "join"))}
        someThrows == \E k \in 1..Len(fromList) :
                         IsNil(fromList[k]) /\ \A j \in joined : j > k
        hasJoinKeyword == joined # {}
        implicit ==
          IF Len(fromList) > 1
            THEN IF someThrows THEN Raise
                 ELSE IF ~hasJoinKeyword /\ ~Truthy(Prop(ast, "where"))
                   THEN Ok(<< finding("implicit-cross-join", "error",
                                      Txt("Implicit cross join (comma join without WHERE)"),
                                      Txt("Listing tables separated by commas without a WHERE clause creates a Cartesian product."),
                                      "memory",
                                      Some(join(SelectSeq([k \in 1..Len(fromList) |-> ItemName(fromList[k])],
                                                          LAMBDA n : n # << >>),
                                                N_COMMA_SPACE))) >>)
                 ELSE Ok(<< >>)
            ELSE Ok(<< >>)
        explicit ==
          CatAll([k \in 1..Len(fromList) |->
            LET item == fromList[k]
            IN  IF IsNil(item) THEN Raise
                ELSE IF /\ Truthy(Prop(item, "join"))
                        /\ ~Is(Prop(item, "join"), N_CROSS_JOIN)
                        /\ ~Truthy(Prop(item, "on"))
                  THEN \* locate(sql, item.join) calls item.join.toLowerCase()
                       IF Prop(item, "join").t # "string" THEN Raise
                       ELSE Ok(<< WithOffset(
                                    finding("join-without-on", "warning", Txt("JOIN without ON condition"),
                                            Txt("A JOIN without an ON condition may produce a Cartesian product"),
                                            "performance", Some(Prop(item, "join").v)),
                                    sql, Prop(item, "join").v) >>)
                ELSE Ok(<< >>)])
    IN  Cat(implicit, explicit)

(***************************************************************************)
(* runRules                                                                *)
(***************************************************************************)
\* checkCrossJoin called before checkOrderByWithoutLimit
structuralRules_swapped(node, sql) ==
  Cat(checkSelectStar(node, sql),
  Cat(checkCrossJoin(node, sql),
  Cat(checkOrderByWithoutLimit(node, sql),
  Cat(checkNestedSubqueries(node, sql, 0),
      checkJoinWithoutCondition(node, sql)))))

\* the five tree rules on one top-level node, in the order runRules calls them
structuralRules(node, sql) ==
  Cat(checkSelectStar(node, sql),
  Cat(checkOrderByWithoutLimit(node, sql),
  Cat(checkCrossJoin(node, sql),
  Cat(checkNestedSubqueries(node, sql, 0),
      checkJoinWithoutCondition(node, sql)))))

\* no filtering at all
dedupe_none(findings, seen) == findings

\* findings.filter((f) => { if (seen.has(f.ruleId)) return false; seen.add(f.ruleId); return true; })
RECURSIVE dedupe(_, _)
dedupe(findings, seen) ==
  IF findings = << >> THEN << >>
  ELSE IF Head(findings).ruleId \in seen THEN dedupe(Tail(findings), seen)
  ELSE << Head(findings) >> \o dedupe(Tail(findings), seen \cup {Head(findings).ruleId})

\* the text rules run only when there is a tree
runRules_treeOnly(ast, sql, left) ==
  LET asts == AsList(ast)
      Then(tree) ==
        IF tree.raised THEN Raise
        ELSE Ok(dedupe(tree.findings \o (IF Truthy(ast) THEN regexRules(sql, left) ELSE << >>), {}))
  IN  Then(CatAll([k \in 1..Len(asts) |->
             IF ~Truthy(asts[k]) THEN Ok(<< >>) ELSE structuralRules(asts[k], sql)]))


runRules(ast, sql, left) ==
  LET asts == AsList(ast)
      Then(tree) ==
        IF tree.raised THEN Raise
        ELSE Ok(dedupe(tree.findings \o regexRules(sql, left), {}))
  IN  Then(CatAll([k \in 1..Len(asts) |->
             IF ~Truthy(asts[k]) THEN Ok(<< >>) ELSE structuralRules(asts[k], sql)]))

(***************************************************************************)
(* analyzer/index.ts: the text normalizer                                  *)
(***************************************************************************)
N_NULL == << "N","U","L","L" >>

N_json_extract_string == << "j","s","o","n","_","e","x","t","r","a","c","t","_","s","t","r","i","n","g" >>

N_struct_pack == << "s","t","r","u","c","t","_","p","a","c","k" >>

N_SELECT_1 == << "(","S","E","L","E","C","T"," ","1",")" >>

N_ARRAY_AGG_1 == << "A","R","R","A","Y","_","A","G","G","(","1",")" >>

N_ROW_1 == << "R","O","W","(","1",")" >>

N_SELECT_STAR_FROM == << "S","E","L","E","C","T"," ","*"," ","F","R","O","M"," " >>

\* new RegExp(`\\b${funcName}\\s*\\(`, 'gi')
M_call(s, i, funcName) == Ch(s, SkipSpace(s, Lit(s, B(s, i), funcName)), "(")

\* a scan that stops after the first closing parenthesis, whatever the depth
scanParens_first(s, i, depth) ==
  LET Shut(c) == IF c = -1 THEN [i |-> Len(s), depth |-> depth] ELSE [i |-> c + 1, depth |-> 0]
  IN  Shut(indexOf(s, << ")" >>, i))

\* the inner while loop of replaceBalancedCall: from position i at depth
\* `depth`, the position and the depth at which the scan stops
RECURSIVE scanParens(_, _, _)
scanParens(s, i, depth) ==
  IF i < Len(s) /\ depth > 0
    THEN scanParens(s, i + 1,
                    IF At(s, i) = "(" THEN depth + 1
                    ELSE IF At(s, i) = ")" THEN depth - 1 ELSE depth)
    ELSE [i |-> i, depth |-> depth]

\* the outer while loop of replaceBalancedCall, re.lastIndex being lastIndex
RECURSIVE replaceBalancedLoop(_, _, _, _)
replaceBalancedLoop(s, funcName, replacement, lastIndex) ==
  LET Scanned(ends, start, scan) ==
        IF scan.depth = 0
          THEN replaceBalancedLoop(slice(s, 0, start) \o replacement \o slice(s, scan.i, Len(s)),
                                   funcName, replacement, start + Len(replacement))
        ELSE replaceBalancedLoop(s, funcName, replacement, ends[start])
      Matched(ends, start) ==
        IF start = -1 THEN s ELSE Scanned(ends, start, scanParens(s, ends[start], 1))
      Exec(ends) == Matched(ends, FirstMatch(ends, lastIndex))
  IN  Exec(Ends(s, LAMBDA t, i : M_call(t, i, funcName)))

replaceBalancedCall(s, funcName, replacement) ==
  replaceBalancedLoop(s, funcName, replacement, 0)

\* s.replace(re, ...) for a g expression: the text with each successive
\* match ms[k] replaced by reps[k], from match k on, cursor being the end
\* of the previous match
RECURSIVE splice(_, _, _, _, _)
splice(s, ms, reps, k, cursor) ==
  IF k > Len(ms) THEN slice(s, cursor, Len(s))
  ELSE slice(s, cursor, ms[k].index) \o reps[k] \o splice(s, ms, reps, k + 1, ms[k].end)

replaceAll(s, re, repl) ==
  LET Spliced(ms) == splice(s, ms, [k \in 1..Len(ms) |-> repl[ms[k].index]], 1, 0)
  IN  Spliced(ExecLoop(re, 0))

\* /::[A-Za-z_][A-Za-z0-9_]*(\[\])?/g
M_castSuffix(s, i) ==
  LET Suffix(w, a) == IF w = -1 THEN -1 ELSE IF a >= 0 THEN a ELSE w
      Name(w) == Suffix(w, Ch(s, Ch(s, w, "["), "]"))
      Colons(j) == Name(IF j >= 0 /\ IsWordCh(At(s, j)) /\ At(s, j) \notin Digits
                          THEN SkipWord(s, j) ELSE -1)
  IN  Colons(Ch(s, Ch(s, i, ":"), ":"))

\* (?:"\w+"\.)* at position i (greedy)
RECURSIVE QuotedPrefix(_, _)
QuotedPrefix(s, i) ==
  LET More(j) == IF j = -1 THEN i ELSE QuotedPrefix(s, j)
  IN  More(Ch(s, Ch(s, Word1(s, Ch(s, i, "\"")), "\""), "."))

\* the group ((?:"\w+"\.)*"?\w+"?) at position i: the end position or -1
TableRef(s, i) ==
  LET Closed(w) == IF w = -1 THEN -1 ELSE IF At(s, w) = "\"" THEN w + 1 ELSE w
      Name(p) == Closed(Word1(s, IF At(s, p) = "\"" THEN p + 1 ELSE p))
  IN  Name(IF i >= 0 THEN QuotedPrefix(s, i) ELSE -1)

\* \w+\s*\([^)]*\) at position i: the end position or -1
AggCall(s, i) ==
  LET Closed(c) == IF c >= 0 THEN c + 1 ELSE -1
      Opened(o) == Closed(IF o >= 0 THEN indexOf(s, << ")" >>, o) ELSE -1)
  IN  Opened(Ch(s, SkipSpace(s, Word1(s, i)), "("))

\* (?:\s*,\s*\w+\s*\([^)]*\))* at position i (greedy)
RECURSIVE MoreAggCalls(_, _)
MoreAggCalls(s, i) ==
  LET More(j) == IF j = -1 THEN i ELSE MoreAggCalls(s, j)
  IN  More(AggCall(s, SkipSpace(s, Ch(s, SkipSpace(s, i), ","))))

\* /\bPIVOT\s+((?:"\w+"\.)*"?\w+"?)\s+ON\s+[\s\S]*?\bUSING\s+\w+\s*\([^)]*\)(?:\s*,\s*\w+\s*\([^)]*\))*/gi
M_pivotClause(s, i) ==
  LET Using(j) == AggCall(s, Spaces1(s, Lit(s, B(s, j), W_USING)))
      Lazy(b, us) ==
        IF b = -1 \/ us = {} THEN -1
        ELSE MoreAggCalls(s, Using(CHOOSE j \in us : \A k \in us : j <= k))
      On(b) == Lazy(b, {j \in 0..Len(s) : j >= b /\ Using(j) >= 0})
  IN  On(Spaces1(s, Lit(s, Spaces1(s, TableRef(s, Spaces1(s, Lit(s, B(s, i), W_PIVOT)))), W_ON)))

\* /\bUNPIVOT\s+((?:"\w+"\.)*"?\w+"?)\s+ON\s+[\s\S]*?\bIN\s*\([^)]*\)/gi
M_unpivotClause(s, i) ==
  LET Closed(c) == IF c >= 0 THEN c + 1 ELSE -1
      Opened(o) == Closed(IF o >= 0 THEN indexOf(s, << ")" >>, o) ELSE -1)
      InList(j) == Opened(Ch(s, SkipSpace(s, Lit(s, B(s, j), W_IN)), "("))
      Lazy(b, ins) ==
        IF b = -1 \/ ins = {} THEN -1
        ELSE InList(CHOOSE j \in ins : \A k \in ins : j <= k)
      On(b) == Lazy(b, {j \in 0..Len(s) : j >= b /\ InList(j) >= 0})
  IN  On(Spaces1(s, Lit(s, Spaces1(s, TableRef(s, Spaces1(s, Lit(s, B(s, i), W_UNPIVOT)))), W_ON)))

\* 'SELECT * FROM $1' for the match of a PIVOT or UNPIVOT clause at i,
\* whose keyword has kw characters
ReshapeRepl(s, i, kw) ==
  LET Name(g) == N_SELECT_STAR_FROM \o slice(s, g, TableRef(s, g))
  IN  Name(Spaces1(s, i + kw))

\* out.replace(/::[A-Za-z_][A-Za-z0-9_]*(\[\])?/g, '')
replaceCastSuffix(out) ==
  replaceAll(out, Ends(out, M_castSuffix), [i \in 0..Len(out) |-> << >>])

\* out.replace(/\bPIVOT ... /gi, 'SELECT * FROM $1')
replacePivotClause(out) ==
  replaceAll(out, Ends(out, M_pivotClause),
             [i \in 0..Len(out) |-> ReshapeRepl(out, i, Len(W_PIVOT))])

\* out.replace(/\bUNPIVOT ... /gi, 'SELECT * FROM $1')
replaceUnpivotClause(out) ==
  replaceAll(out, Ends(out, M_unpivotClause),
             [i \in 0..Len(out) |-> ReshapeRepl(out, i, Len(W_UNPIVOT))])

preprocessForParser(sql) ==
  LET s1 == replaceCastSuffix(sql)
      s2 == replaceBalancedCall(s1, W_LIST_TRANSFORM, N_NULL)
      s3 == replaceBalancedCall(s2, N_json_extract_string, N_NULL)
      s4 == replaceBalancedCall(s3, W_JSON_EACH, N_SELECT_1)
      s5 == replaceBalancedCall(s4, W_LIST, N_ARRAY_AGG_1)
      s6 == replaceBalancedCall(s5, N_struct_pack, N_ROW_1)
      s7 == replacePivotClause(s6)
  IN  replaceUnpivotClause(s7)

(***************************************************************************)
(* analyzer/index.ts: analyze                                              *)
(***************************************************************************)
\* what parser.astify does on one text: it returns a value or throws
Return(v) == [kind |-> "return", value |-> v, isError |-> FALSE, message |-> ""]

\* a thrown value: an Error with a message, or a value that is not an Error
Throw(isError, message) == [kind |-> "throw", value |-> Nil, isError |-> isError, message |-> message]

\* the message read off whatever was thrown
ErrorMessage_any(e) == e.message

\* `e instanceof Error ? e.message : 'Failed to parse SQL'` for the thrown e
ErrorMessage(e) == IF e.isError THEN e.message ELSE "Failed to parse SQL"

\* parseError assigned in the catch of the first attempt
ParseErrorOf_first(first, second) ==
  IF first.kind = "throw"
    THEN Some(ErrorMessage(IF second.kind = "throw" THEN second ELSE first))
    ELSE None

\* parseError after the two attempts: it is assigned only in the catch of
\* the second attempt, which runs only in the catch of the first
ParseErrorOf(first, second) ==
  IF first.kind = "throw" /\ second.kind = "throw"
    THEN Some(ErrorMessage(second))
    ELSE None

\* ast after the two attempts
AstOf(first, second) ==
  IF first.kind = "return" THEN first.value
  ELSE IF second.kind = "return" THEN second.value
  ELSE Nil

\* the part of analyze after the early return: first and second are what
\* parser.astify does on trimmed and on sanitized, rules what runRules does
Attempt(trimmed, sanitized, first, second, rules) ==
  [raised |-> rules.raised, findings |-> rules.findings,
   parseError |-> IF rules.raised THEN None ELSE ParseErrorOf(first, second),
   astifyCalls |-> IF first.kind = "return" THEN << trimmed >> ELSE << trimmed, sanitized >>,
   ast |-> AstOf(first, second), ranRules |-> TRUE]

\* the part of analyze after trimming
Trimmed(trimmed, sanitized, astify, left) ==
  IF trimmed = << >>
    THEN [raised |-> FALSE, findings |-> << >>, parseError |-> None,
          astifyCalls |-> << >>, ast |-> Nil, ranRules |-> FALSE]
    ELSE Attempt(trimmed, sanitized, astify[trimmed], astify[sanitized],
                 runRules(AstOf(astify[trimmed], astify[sanitized]), trimmed, left))

\* analyze(sql) with a parser that behaves as astify, left being the
\* lastIndex left on the regular-expression objects of the previous call.
\* raised: analyze throws; findings and parseError: the AnalysisResult it
\* returns; astifyCalls: the texts given to parser.astify, in order; ast:
\* the tree given to runRules; ranRules: runRules was called.
analyze(sql, astify, left) ==
  Trimmed(trim(sql), preprocessForParser(trim(sql)), astify, left)

\* lastIndex of the regular-expression objects after analyze(sql): runRules
\* reaches regexRules only when no tree rule has thrown
lastIndexAfter(sql, call, left) ==
  IF call.ranRules /\ ~call.raised
    THEN [groupByPattern |-> groupByPatternLastIndex(trim(sql), left.groupByPattern)]
    ELSE left

(***************************************************************************)
(* Bounds and the inputs explored                                          *)
(***************************************************************************)
\* the deepest chain of nested queries in a tree
MaxDepth == 3

\* the most top-level statements in a tree list
MaxStatements == 2

\* the most ORDER BY, OVER ( and GROUP BY clauses of each kind in a text
MaxOps == 3

\* the most fragments concatenated into a text
MaxFrags == 2

\* the most type casts in a text
MaxCasts == 9

\* the most named queries in a text
MaxCtes == 11

\* the most -> and ->> operators in a text
MaxJsonOps == 20

\* the most calls of list in each spelling in a text
MaxLists == 2

\* the most values in an IN list
MaxInList == 51

N_a == << "a" >>

N_b == << "b" >>

N_INNER_JOIN == << "I","N","N","E","R"," ","J","O","I","N" >>

N_insert == << "i","n","s","e","r","t" >>

\* tree nodes as the parser builds them
Tbl(name) == Obj([db |-> Nil, table |-> Str(name), as |-> Nil])

JoinItem(name, kind, on) == Obj([db |-> Nil, table |-> Str(name), as |-> Nil, join |-> kind, on |-> on])

Sub(tree) == Obj([expr |-> Obj([ast |-> tree]), as |-> Str(<< "s" >>)])

ColRef == Obj([expr |-> Obj([type |-> Str(<< "c" >>)]), as |-> Nil])

ColStar == Obj([expr |-> Obj([type |-> Str(N_star)]), as |-> Nil])

Cond == Obj([type |-> Str(<< "=" >>), left |-> Obj([type |-> Str(<< "c" >>)]),
             right |-> Obj([type |-> Str(<< "c" >>)])])

Select(columns, from, where, orderby, limit) ==
  Obj([type |-> Str(N_select), columns |-> columns, from |-> from, where |-> where,
       orderby |-> orderby, limit |-> limit])

ColumnsOpts == {Nil, Str(N_STAR), Arr(<< ColStar, ColRef, ColStar >>), Arr(<< ColRef, Nil >>)}

FromOpts ==
  { Nil,
    Arr(<< Tbl(N_a) >>),
    Tbl(N_a),
    Arr(<< Tbl(N_a), Tbl(N_b) >>),
    Arr(<< Tbl(N_a), JoinItem(N_b, Str(N_CROSS_JOIN), Nil) >>),
    Arr(<< Tbl(N_a), JoinItem(N_b, Str(N_INNER_JOIN), Nil) >>),
    Arr(<< Tbl(N_a), JoinItem(N_b, Str(N_INNER_JOIN), Cond) >>),
    Arr(<< Tbl(N_a), JoinItem(N_b, Other, Nil) >>),
    Arr(<< Tbl(N_a), Nil >>) }

WhereOpts == {Nil, Cond}

\* orderby and limit
SortOpts == {<< Nil, Nil >>, << Arr(<< Cond >>), Nil >>, << Arr(<< Cond >>), Cond >>}

BaseSelects ==
  {Select(c, f, w, ol[1], ol[2]) : c \in ColumnsOpts, f \in FromOpts, w \in WhereOpts, ol \in SortOpts}

\* a query with `inner` nested in it: in FROM, as an operand of WHERE, as
\* an argument of a function in WHERE, or as an operand of such an argument
Nest(kind, inner) ==
  CASE kind = "from"  -> Select(Arr(<< ColRef >>), Arr(<< Sub(inner) >>), Nil, Nil, Nil)
    [] kind = "where" -> Select(Arr(<< ColRef >>), Arr(<< Tbl(N_a) >>),
                                Obj([type |-> Str(<< "=" >>), left |-> Obj([type |-> Str(<< "c" >>)]),
                                     right |-> Obj([ast |-> inner])]),
                                Nil, Nil)
    [] kind = "args"  -> Select(Arr(<< ColRef >>), Arr(<< Tbl(N_a) >>),
                                Obj([type |-> Str(<< "f" >>),
                                     args |-> Obj([expr |-> Arr(<< Obj([ast |-> inner]) >>)])]),
                                Nil, Nil)
    [] kind = "operand of an argument" ->
           Select(Arr(<< ColRef >>), Arr(<< Tbl(N_a) >>),
                  Obj([type |-> Str(<< "f" >>),
                       args |-> Obj([expr |-> Arr(<< Obj([type |-> Str(<< "+" >>),
                                                          left |-> Obj([type |-> Str(<< "c" >>)]),
                                                          right |-> Obj([ast |-> inner])]) >>)])]),
                  Nil, Nil)

NestLeaves ==
  { Select(Str(N_STAR), Arr(<< Tbl(N_a) >>), Nil, Nil, Nil),
    Select(Arr(<< ColRef >>), Arr(<< Tbl(N_a), Tbl(N_b) >>), Nil, Arr(<< Cond >>), Nil),
    Select(Arr(<< ColRef >>), Arr(<< Tbl(N_a), Nil >>), Nil, Nil, Nil) }

RECURSIVE NestedSelects(_)
NestedSelects(d) ==
  IF d = 0 THEN NestLeaves
  ELSE {Nest(k, t) : k \in {"from", "where", "args"}, t \in NestedSelects(d - 1)}

\* top-level statements of a statement list
Statements ==
  { Select(Str(N_STAR), Arr(<< Tbl(N_a) >>), Nil, Nil, Nil),
    Select(Arr(<< ColRef >>), Arr(<< Tbl(N_a) >>), Nil, Arr(<< Cond >>), Nil),
    Select(Arr(<< ColStar >>), Arr(<< Tbl(N_a), JoinItem(N_b, Str(N_CROSS_JOIN), Nil) >>), Nil, Nil, Nil),
    Obj([type |-> Str(N_insert)]),
    Nil }

RECURSIVE Lists(_, _)
Lists(S, n) == IF n = 0 THEN {<< >>} ELSE {<< x >> \o l : x \in S, l \in Lists(S, n - 1)}

Trees ==
  BaseSelects
    \cup UNION {NestedSelects(d) : d \in 1..MaxDepth}
    \cup {Nest("operand of an argument", t) : t \in NestedSelects(MaxDepth - 1)}
    \cup {Arr(l) : l \in UNION {Lists(Statements, n) : n \in 2..MaxStatements}}
    \cup {Nil, Other, Obj([type |-> Str(N_insert)]), Obj([type |-> Str(N_select)])}

Throws == {Throw(TRUE, "Expected \"(\" but \"x\" found."), Throw(TRUE, ""), Throw(FALSE, "")}

ShapeOutcomes == {Return(t) : t \in Trees} \cup Throws

BasicOutcomes ==
  { Return(Nil),
    Return(Select(Str(N_STAR), Arr(<< Tbl(N_a) >>), Nil, Arr(<< Cond >>), Nil)),
    Throw(TRUE, "Expected \"(\" but \"x\" found.") }

MinimalOutcomes == {Return(Nil), Throw(TRUE, "Expected \"(\" but \"x\" found.")}

\* s repeated n times
RECURSIVE Rep(_, _)
Rep(s, n) == IF n = 0 THEN << >> ELSE s \o Rep(s, n - 1)

\* the concatenation of a sequence of texts
RECURSIVE Concat(_)
Concat(ss) == IF ss = << >> THEN << >> ELSE Head(ss) \o Concat(Tail(ss))

ShapeTexts ==
  { << "S","E","L","E","C","T"," ","*"," ","F","R","O","M"," ","a"," ","C","R","O","S","S"," ","J","O","I","N"," ","b"," ","O","R","D","E","R"," ","B","Y"," ","x",":",":","I","N","T" >>,
    << " "," ","s","e","l","e","c","t"," ","*"," ","f","r","o","m"," ","a"," ","i","n","n","e","r"," ","j","o","i","n"," ","b"," ","o","r","d","e","r"," ","b","y"," ","x" >>,
    << "S","E","L","E","C","T"," ","a"," ","F","R","O","M"," ","t"," ","U","N","I","O","N"," ","S","E","L","E","C","T"," ","1" >> }

EmptyTexts == { << >>, << " " >>, << "\n", "\t", " " >> }

F_ORDER_BY == << "O","R","D","E","R"," ","B","Y"," ","x"," " >>

F_OVER == << "o","v","e","r"," ","(" >>

F_GROUP_BY == << "G","R","O","U","P"," "," ","B","Y"," ","y"," " >>

Decoys ==
  { << >>,
    << "R","E","O","R","D","E","R"," ","B","Y"," ","O","R","D","E","R","B","Y"," " >>,
    << "G","R","O","U","P"," ","B","Y","E"," ","x",".","o","v","e","r","(" >> }

BlockingTexts ==
  {d \o Rep(F_ORDER_BY, a) \o Rep(F_OVER, b) \o Rep(F_GROUP_BY, c) :
     d \in Decoys, a \in 0..MaxOps, b \in 0..MaxOps, c \in 0..MaxOps}

Lexicon ==
  { << "U","N","I","O","N"," " >>,
    << "u","n","i","o","n"," ","a","l","l"," " >>,
    << "N","O","T"," ","I","N"," ","(","1",")"," " >>,
    << "n","o","t"," ","i","n"," ","(","S","E","L","E","C","T"," ","1",")"," " >>,
    << "L","I","K","E"," ","'","%","a","%","'"," " >>,
    << "L","I","S","T","(","x",":",":","I","N","T",")"," " >>,
    << "G","R","O","U","P"," ","B","Y"," ","a",",","b",",","c",",","d"," " >> }

FragTexts == {Concat(l) : l \in UNION {Lists(Lexicon, n) : n \in 0..MaxFrags}}

F_CAST_CALL == << "C","A","S","T","(","a"," ","A","S"," ","I","N","T","E","G","E","R",")"," " >>

F_CAST_COLONS == << "b",":",":","b","i","g","i","n","t"," " >>

F_CAST_VARCHAR == << "c",":",":","V","A","R","C","H","A","R"," " >>

\* seven to MaxCasts casts: at most one CAST( ... ), at most one cast to a
\* type the expression of rule 20 does not name, the others ::bigint
CastTexts ==
  {Rep(F_CAST_CALL, n[1]) \o Rep(F_CAST_COLONS, n[2]) \o Rep(F_CAST_VARCHAR, n[3]) :
     n \in {m \in (0..1) \X (0..MaxCasts) \X (0..1) : m[1] + m[2] + m[3] \in 7..MaxCasts}}

F_WITH == << "W","I","T","H"," " >>

F_CTE == << "c"," ","A","S"," ","(","S","E","L","E","C","T"," ","1",")",","," " >>

F_CTE_MATERIALIZED == << "m"," ","a","s"," ","m","a","t","e","r","i","a","l","i","z","e","d"," ","(","s","e","l","e","c","t"," ","1",")",","," " >>

F_WINDOW == << "W","I","N","D","O","W"," ","w"," ","A","S"," ","(","P","A","R","T","I","T","I","O","N"," ","B","Y"," ","x",")"," " >>

\* a WITH clause of four to MaxCtes named queries, at most one of them AS
\* MATERIALIZED, followed or not by the definition of a named window
CteTexts ==
  {F_WITH \o Rep(F_CTE, n[1]) \o Rep(F_CTE_MATERIALIZED, n[2]) \o Rep(F_WINDOW, n[3]) :
     n \in {m \in (0..MaxCtes) \X (0..1) \X (0..1) : m[1] + m[2] \in 4..MaxCtes}}

F_ARROW2 == << "a","-",">",">","'","k","'"," " >>

F_ARROW == << "b","-",">","'","j","'"," " >>

\* seven to MaxJsonOps extractions, none or seven of them written ->
JsonTexts ==
  {Rep(F_ARROW2, n[1]) \o Rep(F_ARROW, n[2]) :
     n \in {m \in (0..MaxJsonOps) \X {0, 7} : m[1] + m[2] \in 7..MaxJsonOps}}

F_LIST == << "L","I","S","T","(","x",")"," " >>

F_LIST_SPACED == << "l","i","s","t"," "," ","(","y",")"," " >>

\* calls of other functions whose names hold the word list
ListDecoys == { << >>, << "m","y","l","i","s","t","(","z",")"," ","l","i","s","t","_","t","r","a","n","s","f","o","r","m","(","u",")"," ","l","i","s","t"," " >> }

ListTexts ==
  {d \o Rep(F_LIST, a) \o Rep(F_LIST_SPACED, b) :
     d \in ListDecoys, a \in 0..MaxLists, b \in 0..MaxLists}

F_IN == << "x"," ","I","N"," ","(" >>

F_IN_SPACED == << "y"," ","i","n"," "," ","("," " >>

F_VALUE_STRING == << "'","a","'"," ",","," " >>

F_VALUE_NUMBER == << "1","," >>

F_VALUE_LAST == << "2",".","5",")" >>

\* a membership test listing MaxInList - 3 to MaxInList literal values, the
\* first two of them quoted strings or not
InListTexts ==
  {o \o Rep(F_VALUE_STRING, q) \o Rep(F_VALUE_NUMBER, n - 1 - q) \o F_VALUE_LAST :
     o \in {F_IN, F_IN_SPACED}, q \in {0, 2}, n \in (MaxInList - 3)..MaxInList}

\* the call of spec section "Balanced-call rewriting"
F_LIST_TRANSFORM_CALL ==
  << "l","i","s","t","_","t","r","a","n","s","f","o","r","m","(","j","s","o","n","_","e","x","t","r","a","c","t","_","s","t","r","i","n","g","(","x",","," ","'","$",".","a","'",")",","," ","t"," ","-",">"," ","U","P","P","E","R","(","t",")",")" >>

\* calls of the functions preprocessForParser replaces, with parentheses
\* inside their arguments; the last one never closes
NestedCalls ==
  { F_LIST_TRANSFORM_CALL,
    << "L","I","S","T"," ","(","f","(","a",")",","," ","(","b",")",")" >>,
    << "j","s","o","n","_","e","a","c","h","(","g","(","h","(","c",")",")",")" >>,
    << "s","t","r","u","c","t","_","p","a","c","k","(","k"," ",":","="," ","l","i","s","t","(","d",")",")" >>,
    << "l","i","s","t","(","(","e",")" >> }

CallPrefixes == { << >>, << "S","E","L","E","C","T"," ","f","(" >>, << "L","I","S","T","(","z",")"," ","+"," " >> }

CallSuffixes == { << >>, << ")"," ","F","R","O","M"," ","t" >>, << " ","+"," ","(","1",")" >> }

NestedCallTexts == {a \o c \o z : a \in CallPrefixes, c \in NestedCalls, z \in CallSuffixes}

F_LIKE_LEADING == << "x"," ","L","I","K","E"," ","'","%","f","o","o","'"," " >>

F_LIKE_TRAILING == << "y"," ","l","i","k","e"," ","'","f","o","o","%","'"," " >>

F_LIKE_BOTH == << "z"," ","L","I","K","E"," "," ","'","%","f","o","o","%","'"," " >>

\* pattern matches whose pattern starts with %, ends with %, or both
LikeTexts ==
  {Rep(F_LIKE_TRAILING, a) \o Rep(F_LIKE_LEADING, b) \o Rep(F_LIKE_BOTH, c) :
     a \in 0..1, b \in 0..1, c \in 0..1}

F_PIVOT == << "P","I","V","O","T"," ","t"," ","O","N"," ","c"," " >>

F_PIVOT_USING == << "p","i","v","o","t"," ","t"," ","O","N"," ","c"," ","U","S","I","N","G"," ","s","u","m","(","x",")"," " >>

F_UNPIVOT == << "U","N","P","I","V","O","T"," ","u"," ","O","N"," ","a"," ","I","N"," ","(","b",")"," " >>

\* reshape clauses: PIVOT without and with USING, and UNPIVOT, in any combination
PivotTexts ==
  {Rep(F_UNPIVOT, a) \o Rep(F_PIVOT, b) \o Rep(F_PIVOT_USING, c) \o Rep(F_UNPIVOT, d) :
     a \in 0..1, b \in 0..1, c \in 0..1, d \in 0..1}

\* the most ORDER BY ... DESC LIMIT 1 of each layout in a text
MaxLatest == 2

F_LATEST_LINES == << "O","R","D","E","R"," ","B","Y"," ","t",".","x"," ","D","E","S","C","\n","L","I","M","I","T"," ","1"," " >>

F_LATEST_SPACES == << "o","r","d","e","r"," ","b","y"," ","x"," ","d","e","s","c"," ","l","i","m","i","t"," ","1"," " >>

\* the pattern written on two lines and on one
LatestTexts ==
  {Rep(F_LATEST_LINES, a) \o Rep(F_LATEST_SPACES, b) : a \in 0..MaxLatest, b \in 0..MaxLatest}

\* the queries of the spec's examples of the tree rules
Q_SELECT_STAR == << "S","E","L","E","C","T"," ","*"," ","F","R","O","M"," ","t" >>

Q_ORDER_BY == << "S","E","L","E","C","T"," ","a"," ","F","R","O","M"," ","t"," ","O","R","D","E","R"," ","B","Y"," ","a" >>

Q_ORDER_BY_LIMIT == << "S","E","L","E","C","T"," ","a"," ","F","R","O","M"," ","t"," ","O","R","D","E","R"," ","B","Y"," ","a"," ","L","I","M","I","T"," ","1","0" >>

Q_COMMA_JOIN == << "S","E","L","E","C","T"," ","*"," ","F","R","O","M"," ","a",","," ","b" >>

Q_COMMA_JOIN_WHERE == << "S","E","L","E","C","T"," ","*"," ","F","R","O","M"," ","a",","," ","b"," ","W","H","E","R","E"," ","a",".","i","d"," ","="," ","b",".","i","d" >>

SpecQueries == {Q_SELECT_STAR, Q_ORDER_BY, Q_ORDER_BY_LIMIT, Q_COMMA_JOIN, Q_COMMA_JOIN_WHERE}

CallTexts ==
  ShapeTexts \cup EmptyTexts \cup BlockingTexts \cup FragTexts \cup CastTexts \cup CteTexts
    \cup JsonTexts \cup ListTexts \cup InListTexts \cup NestedCallTexts \cup SpecQueries
    \cup LikeTexts \cup PivotTexts \cup LatestTexts

\* EXAMPLE_QUERIES[0].sql, the first of the example queries
EXAMPLE_QUERIES ==
  { << "S","E","L","E","C","T"," ","*","\n","F","R","O","M"," ","o","r","d","e","r","s","\n","J","O","I","N"," ","c","u","s","t","o","m","e","r","s"," ","O","N"," ","o","r","d","e","r","s",".","c","u","s","t","o","m","e","r","_","i","d"," ","="," ","c","u","s","t","o","m","e","r","s",".","i","d","\n","O","R","D","E","R"," ","B","Y"," ","o","r","d","e","r","s",".","c","r","e","a","t","e","d","_","a","t",";" >> }

\* the tree of the first example query: SELECT * over a join with ON, ordered
ExampleTree ==
  Select(Arr(<< ColStar >>),
         Arr(<< Tbl(<< "o","r","d","e","r","s" >>),
                JoinItem(<< "c","u","s","t","o","m","e","r","s" >>, Str(N_INNER_JOIN), Cond) >>),
         Nil, Arr(<< Cond >>), Nil)

ExampleOutcomes == {Return(ExampleTree), Throw(TRUE, "Expected \"(\" but \"x\" found.")}

\* the texts typed into the editor
TypedTexts ==
  EmptyTexts \cup
  { << "G","R","O","U","P"," ","B","Y"," ","a",",","b",",","c",",","d"," " >>,
    << " ","L","I","S","T","(","x",":",":","I","N","T",")" >>,
    << "a"," ","U","N","I","O","N"," ","b" >> }

\* LIMIT 10 as the parser renders it
Limit10 == Obj([seperator |-> Str(<< >>), value |-> Arr(<< Obj([type |-> Str(<< "n" >>)]) >>)])

\* the trees of a query of the spec: the projection * is rendered as the
\* string '*' or as a column item tagged star
SpecQueryTrees(text) ==
  CASE text = Q_SELECT_STAR ->
         {Select(c, Arr(<< Tbl(<< "t" >>) >>), Nil, Nil, Nil) : c \in {Str(N_STAR), Arr(<< ColStar >>)}}
    [] text = Q_ORDER_BY ->
         {Select(Arr(<< ColRef >>), Arr(<< Tbl(<< "t" >>) >>), Nil, Arr(<< Cond >>), Nil)}
    [] text = Q_ORDER_BY_LIMIT ->
         {Select(Arr(<< ColRef >>), Arr(<< Tbl(<< "t" >>) >>), Nil, Arr(<< Cond >>), Limit10)}
    [] text = Q_COMMA_JOIN ->
         {Select(c, Arr(<< Tbl(N_a), Tbl(N_b) >>), Nil, Nil, Nil) : c \in {Str(N_STAR), Arr(<< ColStar >>)}}
    [] text = Q_COMMA_JOIN_WHERE ->
         {Select(c, Arr(<< Tbl(N_a), Tbl(N_b) >>), Cond, Nil, Nil) : c \in {Str(N_STAR), Arr(<< ColStar >>)}}

\* the outcomes of the parser explored for a text
OutcomesFor(text) ==
  IF text \in ShapeTexts THEN ShapeOutcomes
  ELSE IF text \in SpecQueries
    THEN {Return(t) : t \in SpecQueryTrees(text)} \cup {Throw(TRUE, "Expected \"(\" but \"x\" found.")}
  ELSE IF text \in EXAMPLE_QUERIES THEN ExampleOutcomes
  ELSE IF text \in FragTexts THEN BasicOutcomes
  ELSE MinimalOutcomes

(***************************************************************************)
(* State                                                                   *)
(***************************************************************************)
VARIABLES
  sql,        \* App: the text in the editor (useState(''))
  result,     \* App: the AnalysisResult displayed, None for null
  parser,     \* what parser.astify has done on each text it was given
  lastIndex,  \* lastIndex left on the g regular expressions used with test()
  trace,      \* the last call of analyze; repeat: its text had been analyzed before
  history,    \* the input and the outcome of every call of analyze so far
  render,     \* HighlightedSql: the running call of buildSegments, its locals
  replacing   \* the running call of replaceBalancedCall, its locals

vars == << sql, result, parser, lastIndex, trace, history, render, replacing >>

\* no call of buildSegments, or of replaceBalancedCall, is running
Idle == [done |-> TRUE]

NoTrace ==
  [called |-> FALSE, input |-> << >>, raised |-> FALSE, findings |-> << >>,
   parseError |-> None, astifyCalls |-> << >>, outcomes |-> << >>, ast |-> Nil,
   ranRules |-> FALSE, repeat |-> FALSE]

\* what a call of analyze leaves behind: `call` is what analyze(text) did
\* with a parser doing o1 on the trimmed text and o2 on the normalized text
Record(text, trimmed, sanitized, o1, o2, call) ==
  /\ parser' = [t \in DOMAIN parser \cup Range(call.astifyCalls) |->
                  IF t \in DOMAIN parser THEN parser[t]
                  ELSE IF t = trimmed THEN o1 ELSE o2]
  /\ lastIndex' = lastIndexAfter(text, call, lastIndex)
  /\ trace' = [called |-> TRUE, input |-> text, raised |-> call.raised,
               findings |-> call.findings, parseError |-> call.parseError,
               astifyCalls |-> call.astifyCalls,
               outcomes |-> [k \in 1..Len(call.astifyCalls) |-> IF k = 1 THEN o1 ELSE o2],
               ast |-> call.ast, ranRules |-> call.ranRules,
               repeat |-> \E h \in history : h.input = text]
  /\ history' = history \cup
                  {[input |-> text, raised |-> call.raised, findings |-> call.findings,
                    parseError |-> call.parseError]}

\* the parser is deterministic: it does on a text what it did before on it
Consistent(trimmed, sanitized, o1, o2) ==
  /\ trimmed \in DOMAIN parser => o1 = parser[trimmed]
  /\ sanitized \in DOMAIN parser => o2 = parser[sanitized]
  /\ sanitized = trimmed => o2 = o1

\* analyze(text) is called; the parser does o1 on the trimmed text and o2 on
\* the normalized text
CallAnalyze(text, trimmed, sanitized, o1, o2) ==
  /\ Consistent(trimmed, sanitized, o1, o2)
  /\ Record(text, trimmed, sanitized, o1, o2,
            analyze(text, (trimmed :> o1) @@ (sanitized :> o2), lastIndex))

\* the outcomes of the parser explored for the normalized text, after the
\* first attempt has thrown: of the trees, the selects without nesting
RetryOutcomesFor(text) ==
  IF text \in ShapeTexts THEN {Return(t) : t \in BaseSelects} \cup Throws
  ELSE OutcomesFor(text)

\* the second outcome is drawn only when the first attempt throws
Attempts(text, trimmed, sanitized) ==
  \E o1 \in OutcomesFor(text) :
    \E o2 \in (IF o1.kind = "return" \/ trimmed = << >> THEN {o1} ELSE RetryOutcomesFor(text)) :
      CallAnalyze(text, trimmed, sanitized, o1, o2)

Invoke(text) == Attempts(text, trim(text), preprocessForParser(trim(text)))

(***************************************************************************)
(* analyze called once on an input                                         *)
(***************************************************************************)
InitCall ==
  /\ sql \in CallTexts
  /\ result = None
  /\ parser = << >>
  /\ lastIndex = [groupByPattern |-> 0]
  /\ trace = NoTrace
  /\ history = {}
  /\ render = Idle
  /\ replacing = Idle

Call ==
  /\ ~trace.called
  /\ Invoke(sql)
  /\ UNCHANGED << sql, result, render, replacing >>

SpecCall == InitCall /\ [][Call]_vars

(***************************************************************************)
(* App.tsx: the editor text and the displayed result                       *)
(***************************************************************************)
\* useState('') and useState(null); nothing has been parsed or analyzed yet
Init ==
  /\ sql = << >>
  /\ result = None
  /\ parser = << >>
  /\ lastIndex = [groupByPattern |-> 0]
  /\ trace = NoTrace
  /\ history = {}
  /\ render = Idle
  /\ replacing = Idle

\* <SqlEditor value={sql} onChange={setSql} />
SetSql(text) ==
  /\ sql' = text
  /\ UNCHANGED << result, parser, lastIndex, trace, history, render, replacing >>

\* handleAnalyze: setResult(r) is reached only when analyze returns
HandleAnalyze ==
  /\ trim(sql) # << >>
  /\ Invoke(sql)
  /\ result' = IF trace'.raised THEN result
               ELSE Some([findings |-> trace'.findings, parseError |-> trace'.parseError])
  /\ UNCHANGED << sql, render, replacing >>

\* handleExample
HandleExample(query) ==
  /\ sql' = query
  /\ result' = None
  /\ UNCHANGED << parser, lastIndex, trace, history, render, replacing >>

Next ==
  \/ \E text \in TypedTexts : SetSql(text)
  \/ HandleAnalyze
  \/ \E query \in EXAMPLE_QUERIES : HandleExample(query)

Spec == Init /\ [][Next]_vars

(***************************************************************************)
(* Properties                                                              *)
(***************************************************************************)
\* the rule ids in the order the rules are written down: the tree rules,
\* then the text rules in the order regexRules declares them
StructuralIds ==
  << "select-star", "order-without-limit", "cross-join", "deeply-nested-subquery",
     "implicit-cross-join", "join-without-on" >>

PatternIds ==
  << "non-spillable-list", "non-spillable-list-distinct",
     "non-spillable-string-agg", "non-spillable-ordered-agg",
     "many-blocking-operators", "heavy-json-extraction",
     "moderate-json-extraction", "json-each-expansion", "json-array-extract",
     "repeated-order-limit-1", "use-arg-max", "leading-wildcard-like",
     "function-on-filter-column", "distinct-star", "union-without-all",
     "count-distinct", "not-in-subquery", "correlated-subquery",
     "insert-select-star", "many-ctes", "window-without-qualify",
     "excessive-casts", "md-local-remote-transfer", "group-by-verbose",
     "remote-file-select-star", "md-duckling-size", "list-transform",
     "non-spillable-pivot", "many-left-join-on-true", "non-spillable-median",
     "unnest-large-expansion", "recursive-cte-no-limit", "ctas-memory",
     "large-in-list", "read-remote-no-filter", "multiple-remote-scans",
     "glob-many-files", "temporal-join-via-window", "or-chain-instead-of-in",
     "between-timestamp", "chained-select-star", "md-cross-database-join" >>

RuleOrder == StructuralIds \o PatternIds

IsStructural(id) == id \in Range(StructuralIds)

Rank(id) == CHOOSE i \in 1..Len(RuleOrder) : RuleOrder[i] = id

Ids(fs) == {fs[k].ruleId : k \in 1..Len(fs)}

\* the first finding of fs with the given rule id
FirstWith(fs, id) == fs[CHOOSE k \in 1..Len(fs) : fs[k].ruleId = id /\ \A j \in 1..(k - 1) : fs[j].ruleId # id]

\* the text is empty or white space only
Blank(text) == \A k \in 1..Len(text) : IsSpace(text[k])

\* the last call of analyze has returned a result
Returned == trace.called /\ ~trace.raised

\* C1: analyze returns a result and never raises to its caller, whatever
\* the text and whatever the parser returns or throws
C1_NeverRaises == trace.called => ~trace.raised

\* C2: the findings analyze returns hold no two entries with the same ruleId
C2_NoDuplicateRuleId ==
  Returned =>
    \A i, j \in 1..Len(trace.findings) :
      i # j => trace.findings[i].ruleId # trace.findings[j].ruleId

\* two statements of a statement list both select '*', and one select-star is returned
C2_Witness ==
  /\ Returned
  /\ trace.ast.t = "array"
  /\ \E i, j \in 1..Len(trace.ast.v) :
       /\ i # j
       /\ Is(Prop(trace.ast.v[i], "columns"), N_STAR)
       /\ Is(Prop(trace.ast.v[j], "columns"), N_STAR)
  /\ "select-star" \in Ids(trace.findings)

\* what the tree rules emit for each top-level statement, in order
EmittedBy(ast, text) ==
  [k \in 1..Len(AsList(ast)) |->
     IF Truthy(AsList(ast)[k]) THEN structuralRules(AsList(ast)[k], text).findings ELSE << >>]

\* the first statement whose tree rules emit the rule id
FirstStmt(emitted, id) ==
  CHOOSE k \in 1..Len(emitted) : id \in Ids(emitted[k]) /\ \A j \in 1..(k - 1) : id \notin Ids(emitted[j])

\* fs holds one finding for each rule id emitted, the first one emitted
Survivors(fs, emitted, pattern) ==
  /\ Ids(fs) = Ids(pattern) \cup UNION {Ids(emitted[k]) : k \in 1..Len(emitted)}
  /\ \A k \in 1..Len(fs) :
       IF \E n \in 1..Len(emitted) : fs[k].ruleId \in Ids(emitted[n])
         THEN fs[k] = FirstWith(emitted[FirstStmt(emitted, fs[k].ruleId)], fs[k].ruleId)
         ELSE fs[k] = FirstWith(pattern, fs[k].ruleId)

\* fs is in the order of the rules
RuleOrdered(fs) ==
  \A i, j \in 1..Len(fs) : i < j => Rank(fs[i].ruleId) < Rank(fs[j].ruleId)

\* fs is in the order of the statements for the tree rules, and within a
\* statement and for the text rules in the order of the rules
StatementOrdered(fs, emitted) ==
  \A i, j \in 1..Len(fs) :
    i < j =>
      IF IsStructural(fs[i].ruleId) /\ IsStructural(fs[j].ruleId)
        THEN \/ FirstStmt(emitted, fs[i].ruleId) < FirstStmt(emitted, fs[j].ruleId)
             \/ /\ FirstStmt(emitted, fs[i].ruleId) = FirstStmt(emitted, fs[j].ruleId)
                /\ Rank(fs[i].ruleId) < Rank(fs[j].ruleId)
        ELSE Rank(fs[i].ruleId) < Rank(fs[j].ruleId)

\* C3 as stated: the findings returned are the tree findings in the fixed
\* order of the rules, then the text findings in declaration order, each
\* rule id kept once, by its first finding emitted; also with several statements
C3_FixedRuleOrder ==
  Returned /\ trace.ranRules =>
    LET Of(trimmed) ==
          /\ RuleOrdered(trace.findings)
          /\ Survivors(trace.findings, EmittedBy(trace.ast, trimmed),
                       regexRules(trimmed, [groupByPattern |-> 0]))
    IN  Of(trim(trace.input))

\* C3 amended: the tree findings come statement by statement, in the fixed
\* order of the rules within a statement; the text findings follow in
\* declaration order; each rule id is kept once, by its first finding emitted
C3_StatementThenRuleOrder ==
  Returned /\ trace.ranRules =>
    LET Of(emitted, pattern) ==
          /\ StatementOrdered(trace.findings, emitted)
          /\ Survivors(trace.findings, emitted, pattern)
        Trim(trimmed) == Of(EmittedBy(trace.ast, trimmed), regexRules(trimmed, [groupByPattern |-> 0]))
    IN  Trim(trim(trace.input))

\* a statement list whose first statement is ordered without a limit and
\* whose second selects '*': order-without-limit is returned before select-star
C3_Witness ==
  /\ Returned
  /\ trace.ast.t = "array"
  /\ \E i, j \in 1..Len(trace.findings) :
       /\ i < j
       /\ trace.findings[i].ruleId = "order-without-limit"
       /\ trace.findings[j].ruleId = "select-star"

\* C4: on a text that is empty once trimmed, analyze returns no finding and
\* no parseError, without calling the parser and without running any rule
C4_EmptyInput ==
  trace.called /\ Blank(trace.input) =>
    /\ ~trace.raised
    /\ trace.findings = << >>
    /\ trace.parseError = None
    /\ trace.astifyCalls = << >>
    /\ ~trace.ranRules

\* analyze has been called on a text of white space
C4_Witness ==
  /\ trace.called
  /\ trace.input # << >>
  /\ Blank(trace.input)
  /\ trace.findings = << >>

\* C5: parseError is set only when both parse attempts have thrown, and
\* then no finding of a tree rule is returned; when an attempt has returned
\* a tree, parseError is null
C5_ParseErrorOnlyWhenAllThrew ==
  Returned =>
    /\ trace.parseError # None =>
         /\ Len(trace.outcomes) = 2
         /\ \A k \in 1..Len(trace.outcomes) : trace.outcomes[k].kind = "throw"
         /\ \A k \in 1..Len(trace.findings) : ~IsStructural(trace.findings[k].ruleId)
    /\ (\E k \in 1..Len(trace.outcomes) : trace.outcomes[k].kind = "return") =>
         trace.parseError = None

\* both attempts have thrown and the text rules have still found something
C5_Witness ==
  /\ Returned
  /\ trace.parseError # None
  /\ trace.findings # << >>
  /\ trace.astifyCalls[1] # trace.astifyCalls[2]

\* what analyze returns for the text when every parse attempt throws
FailedParse(text) ==
  LET Failing(trimmed, sanitized) ==
        Trimmed(trimmed, sanitized,
                (trimmed :> Throw(TRUE, "")) @@ (sanitized :> Throw(TRUE, "")),
                [groupByPattern |-> 0])
      Sanitized(trimmed) == Failing(trimmed, preprocessForParser(trimmed))
  IN  Sanitized(trim(text))

\* fs with the findings of the tree rules removed is `failed`
SameButStructural(fs, failed) ==
  /\ SelectSeq(fs, LAMBDA f : ~IsStructural(f.ruleId)) = failed
  /\ \A k \in 1..Len(failed) : \E n \in 1..Len(fs) : fs[n] = failed[k]

\* C6: for one text, the result of a parse that fails is the result of a
\* parse that yields a tree with the findings of the tree rules removed
C6_FailedParseIsPatternPart ==
  Returned => SameButStructural(trace.findings, FailedParse(trace.input).findings)

\* a tree has been parsed, and both a tree rule and a text rule have found something
C6_Witness ==
  /\ Returned
  /\ trace.parseError = None
  /\ Truthy(trace.ast)
  /\ \E k \in 1..Len(trace.findings) : IsStructural(trace.findings[k].ruleId)
  /\ \E k \in 1..Len(trace.findings) : ~IsStructural(trace.findings[k].ruleId)

\* C7: with a deterministic parser, every call of analyze on the same text
\* has the same outcome, whatever calls came before
C7_SameTextSameResult ==
  \A h1, h2 \in history : h1.input = h2.input => h1 = h2

\* a text with a verbose GROUP BY is analyzed again, the expression object
\* of the previous call having been left with a match position
C7_Witness ==
  /\ Returned
  /\ trace.repeat
  /\ lastIndex.groupByPattern > 0
  /\ "group-by-verbose" \in Ids(trace.findings)

\* C8: the trimmed text is parsed first and the normalized text only after
\* that attempt has thrown; when both throw the tree is null and parseError
\* is the message of the second error, or 'Failed to parse SQL' when what
\* was thrown is not an Error; when the second attempt returns, its tree is
\* used and parseError is null
ParseOrder(trimmed, sanitized) ==
  /\ Len(trace.astifyCalls) \in {1, 2}
  /\ trace.astifyCalls[1] = trimmed
  /\ trace.outcomes[1].kind = "return" =>
       /\ Len(trace.astifyCalls) = 1
       /\ trace.ast = trace.outcomes[1].value
  /\ trace.outcomes[1].kind = "throw" =>
       /\ Len(trace.astifyCalls) = 2
       /\ trace.astifyCalls[2] = sanitized
       /\ trace.outcomes[2].kind = "throw" =>
            /\ trace.ast = Nil
            /\ ~trace.raised
            /\ trace.parseError =
                 Some(IF trace.outcomes[2].isError THEN trace.outcomes[2].message
                      ELSE "Failed to parse SQL")
       /\ trace.outcomes[2].kind = "return" =>
            /\ trace.ast = trace.outcomes[2].value
            /\ ~trace.raised => trace.parseError = None

C8_ParseAdapterOrder ==
  trace.called /\ ~Blank(trace.input) =>
    ParseOrder(trim(trace.input), preprocessForParser(trim(trace.input)))

\* the trimmed text has made the parser throw, the normalized text differs
\* from it and has been parsed into a tree
C8_Witness ==
  /\ Returned
  /\ Len(trace.astifyCalls) = 2
  /\ trace.astifyCalls[1] # trace.astifyCalls[2]
  /\ trace.outcomes[2].kind = "return"
  /\ Truthy(trace.ast)
  /\ trace.parseError = None

\* the offset lies within text, and covers the fragment of text that M
\* matches first whenever the finding is that of the rule `id`
Covers(f, text, id, first, len) ==
  f.ruleId = id => f.offset[1].start = first /\ f.offset[1].end = first + len

OffsetOk(f, text) ==
  /\ 0 <= f.offset[1].start
  /\ f.offset[1].start < f.offset[1].end
  /\ f.offset[1].end <= Len(text)
  /\ Covers(f, text, "union-without-all", FirstMatch(Ends(text, M_union), 0), Len(N_UNION))
  /\ Covers(f, text, "not-in-subquery", FirstMatch(Ends(text, M_notIn), 0), Len(N_NOT_IN))

\* C9: an offset is a range of the text given to analyze, and covers the
\* first fragment of that text that triggered the rule: for
\* union-without-all a UNION not followed by ALL, for not-in-subquery the
\* NOT IN before a subquery
C9_OffsetInOriginalText ==
  Returned =>
    \A k \in 1..Len(trace.findings) :
      trace.findings[k].offset # None => OffsetOk(trace.findings[k], trace.input)

\* the number of places of the text where the expression matches
Occurrences(re) == Cardinality({i \in DOMAIN re : re[i] >= 0})

BlockingFinding(fs, severity) ==
  \E k \in 1..Len(fs) : fs[k].ruleId = "many-blocking-operators" /\ fs[k].severity = severity

Thresholds(fs, o, w, g) ==
  /\ BlockingFinding(fs, "error") <=> o + w + g >= 8
  /\ BlockingFinding(fs, "warning") <=> (5 <= o + w + g /\ o + w + g <= 7)
  /\ ("many-blocking-operators" \notin Ids(fs)) <=> o + w + g <= 4
  /\ \A k \in 1..Len(fs) :
       fs[k].ruleId = "many-blocking-operators" => fs[k].message.args = << o, w, g >>

\* C10: with n the number of ORDER BY, OVER ( and GROUP BY clauses of the
\* text, many-blocking-operators is returned as an error iff n >= 8, as a
\* warning iff 5 <= n <= 7, and not at all iff n <= 4; its message carries
\* the three counts
C10_BlockingThresholds ==
  Returned =>
    Thresholds(trace.findings, Occurrences(Ends(trace.input, M_orderBy)),
               Occurrences(Ends(trace.input, M_over)), Occurrences(Ends(trace.input, M_groupBy)))

\* exactly eight clauses, among words that only look like clauses: an error
C10_Witness ==
  /\ Returned
  /\ BlockingFinding(trace.findings, "error")
  /\ Occurrences(Ends(trace.input, M_orderBy)) + Occurrences(Ends(trace.input, M_over))
       + Occurrences(Ends(trace.input, M_groupBy)) = 8
  /\ \E d \in Decoys : d # << >> /\ HasAt(trace.input, 0, d)

\* a cast written CAST( ... at position i
CastCallForm(s, i) == Ch(s, SkipSpace(s, Lit(s, B(s, i), W_CAST)), "(")

\* a cast written ::T at position i
CastColonsForm(s, i) == Word1(s, SkipSpace(s, Lit(s, i, W_COLONS)))

\* the number of type casts of a text, in either syntax
CastOperations(text) ==
  Occurrences(Ends(text, CastCallForm)) + Occurrences(Ends(text, CastColonsForm))

\* C11: excessive-casts is returned iff the text holds 8 or more type casts,
\* counting the CAST( ... AS T) form and the ::T form; 8 casts give the
\* finding and 7 give none
C11_ExcessiveCastsFromEight ==
  Returned =>
    (("excessive-casts" \in Ids(trace.findings)) <=> CastOperations(trace.input) >= 8)

W_MATERIALIZED == << "M","A","T","E","R","I","A","L","I","Z","E","D" >>

\* a named-query definition at position i: AS, MATERIALIZED or not, and a
\* parenthesis that opens a query
CteDefinition(s, i) ==
  LET Body(a, m) == Lit(s, SkipSpace(s, Ch(s, SkipSpace(s, IF m >= 0 THEN m ELSE a), "(")), W_SELECT)
      Kept(a) == Body(a, Lit(s, Spaces1(s, a), W_MATERIALIZED))
  IN  Kept(Lit(s, B(s, i), W_AS))

ManyCtes(fs, severity) ==
  \E k \in 1..Len(fs) : fs[k].ruleId = "many-ctes" /\ fs[k].severity = severity

CteThresholds(fs, n) ==
  /\ ManyCtes(fs, "warning") <=> n > 10
  /\ ManyCtes(fs, "info") <=> (6 <= n /\ n <= 10)
  /\ ("many-ctes" \notin Ids(fs)) <=> n <= 5
  /\ \A k \in 1..Len(fs) : fs[k].ruleId = "many-ctes" => fs[k].message.args = << n >>

\* C12: with n the number of named-query definitions of the text, many-ctes
\* is returned as a warning iff n > 10, as info iff 6 <= n <= 10, and not at
\* all iff n <= 5; its message carries n; what is not a named-query
\* definition is not counted
C12_ManyCtesThresholds ==
  Returned => CteThresholds(trace.findings, Occurrences(Ends(trace.input, CteDefinition)))

\* the number of -> and ->> operators of a text: every ->> starts with ->
JsonOperators(text) == Occurrences(Ends(text, LAMBDA s, i : Lit(s, i, W_ARROW)))

JsonFinding(fs, id, severity) ==
  \E k \in 1..Len(fs) : fs[k].ruleId = id /\ fs[k].severity = severity

JsonThresholds(fs, n) ==
  /\ JsonFinding(fs, "heavy-json-extraction", "warning") <=> n >= 20
  /\ JsonFinding(fs, "moderate-json-extraction", "info") <=> (8 <= n /\ n <= 19)
  /\ ~("heavy-json-extraction" \in Ids(fs) /\ "moderate-json-extraction" \in Ids(fs))
  /\ n <= 7 => "heavy-json-extraction" \notin Ids(fs) /\ "moderate-json-extraction" \notin Ids(fs)
  /\ \A k \in 1..Len(fs) :
       fs[k].ruleId \in {"heavy-json-extraction", "moderate-json-extraction"} =>
         /\ fs[k].message.args = << n >>
         /\ fs[k].severity = (IF fs[k].ruleId = "heavy-json-extraction" THEN "warning" ELSE "info")

ListCall(s, i) ==
  IF /\ ~IsWordCh(At(s, i - 1))
     /\ toLowerCase(slice(s, i, i + 4)) = W_LIST
     /\ At(s, SkipSpace(s, i + 4)) = "("
    THEN i + 4 ELSE -1

ListFindings(fs) == {k \in 1..Len(fs) : fs[k].ruleId = "non-spillable-list"}

\* C14: a text with n >= 1 calls of the list aggregate gives exactly one
\* non-spillable-list finding, an error whose title and message report n;
\* a text with no call gives none
C14_ListAggregateOnce ==
  Returned =>
    LET n == Occurrences(Ends(trace.input, ListCall))
        fs == trace.findings
    IN  /\ n = 0 => ListFindings(fs) = {}
        /\ n >= 1 =>
             /\ Cardinality(ListFindings(fs)) = 1
             /\ \A k \in ListFindings(fs) :
                  /\ fs[k].severity = "error"
                  /\ fs[k].title.args = << n >>
                  /\ fs[k].message.args = << n >>

\* two calls among calls of mylist and list_transform: one finding, count 2
C14_Witness ==
  /\ Returned
  /\ Occurrences(Ends(trace.input, ListCall)) = 2
  /\ \E d \in ListDecoys : d # << >> /\ HasAt(trace.input, 0, d)
  /\ \E k \in ListFindings(trace.findings) : trace.findings[k].message.args = << 2 >>

\* a literal value: a quoted string or a number
IsLiteral(t) ==
  \/ Len(t) >= 2 /\ t[1] = "'" /\ t[Len(t)] = "'" /\ \A k \in 2..(Len(t) - 1) : t[k] # "'"
  \/ Len(t) >= 1 /\ \A k \in 1..Len(t) : t[k] \in Digits \cup {"."}

\* the number of literal values of the list between the parenthesis that
\* opens at position o - 1 and the first closing parenthesis
LiteralValues(s, o) ==
  LET c == indexOf(s, << ")" >>, o)
      cuts == {o - 1, c} \cup {j \in o..(c - 1) : s[j + 1] = ","}
      next(p) == CHOOSE q \in cuts : q > p /\ \A r \in cuts : r > p => q <= r
  IN  IF c = -1 THEN 0
      ELSE Cardinality({p \in cuts \ {c} : IsLiteral(trim(slice(s, p + 1, next(p))))})

\* IN ( at position i: the position after the parenthesis, or -1
InOpen(s, i) == Ch(s, SkipSpace(s, Lit(s, B(s, i), W_IN)), "(")

\* the most literal values listed by a membership test of the text
LargestInList(text) ==
  LastEnd({LiteralValues(text, InOpen(text, i)) : i \in {j \in 0..Len(text) : InOpen(text, j) >= 0}})

Replaced ==
  { << W_LIST_TRANSFORM, N_NULL >>, << N_json_extract_string, N_NULL >>,
    << W_JSON_EACH, N_SELECT_1 >>, << W_LIST, N_ARRAY_AGG_1 >>, << N_struct_pack, N_ROW_1 >> }

\* a call of f starts at position i: the position of its parenthesis, or -1
CallOpen(s, i, f) ==
  IF /\ ~IsWordCh(At(s, i - 1))
     /\ toLowerCase(slice(s, i, i + Len(f))) = toLowerCase(f)
     /\ At(s, SkipSpace(s, i + Len(f))) = "("
    THEN SkipSpace(s, i + Len(f)) ELSE -1

\* opening minus closing parentheses at positions a .. b - 1
Depth(s, a, b) ==
  Cardinality({k \in a..(b - 1) : At(s, k) = "("}) - Cardinality({k \in a..(b - 1) : At(s, k) = ")"})

\* the parenthesis at position j closes the one opened at position o
Closes(s, o, j) ==
  /\ At(s, j) = ")"
  /\ Depth(s, o + 1, j) = 0
  /\ \A k \in (o + 1)..j : Depth(s, o + 1, k) >= 0

\* every parenthesis of the text is closed
AllClosed(s) == Depth(s, 0, Len(s)) = 0 /\ \A k \in 0..Len(s) : Depth(s, 0, k) >= 0

\* a text preprocessForParser leaves as it is
Untouched(s) ==
  /\ \A p \in Replaced : \A i \in 0..Len(s) : CallOpen(s, i, p[1]) = -1
  /\ ~includes(s, W_COLONS)
  /\ ~includes(toUpperCase(s), W_PIVOT)

\* C16: a call f( ... ) of a replaced function is replaced whole, from the
\* name to the parenthesis that closes the call, calls nested in the
\* arguments included, and the text before and after it is kept as it is;
\* when every parenthesis is closed no call of a replaced function is left
C16_BalancedCallReplacedWhole ==
  (trace.called /\ Len(trace.astifyCalls) = 2) =>
    LET t == trace.astifyCalls[1]
        out == trace.astifyCalls[2]
    IN  /\ \A p \in Replaced : \A i \in 0..Len(t) :
             CallOpen(t, i, p[1]) >= 0 =>
               \A j \in i..(Len(t) - 1) :
                 (/\ Closes(t, CallOpen(t, i, p[1]), j)
                  /\ Untouched(slice(t, 0, i))
                  /\ Untouched(slice(t, j + 1, Len(t))))
                   => out = slice(t, 0, i) \o p[2] \o slice(t, j + 1, Len(t))
        /\ AllClosed(t) => \A p \in Replaced : \A i \in 0..Len(out) : CallOpen(out, i, p[1]) = -1

\* the call of the spec between SELECT f( and ) FROM t: NULL takes its place
C16_Witness ==
  /\ trace.called
  /\ trace.astifyCalls =
       << << "S","E","L","E","C","T"," ","f","(" >> \o F_LIST_TRANSFORM_CALL \o << ")"," ","F","R","O","M"," ","t" >>,
          << "S","E","L","E","C","T"," ","f","(" >> \o N_NULL \o << ")"," ","F","R","O","M"," ","t" >> >>

\* the top-level statements the tree rules look into
SelectStatements(ast) ==
  {n \in Range(AsList(ast)) : Truthy(n) /\ Is(Prop(n, "type"), N_select)}

\* the FROM items of a select
FromItems(node) == IF Truthy(Prop(node, "from")) THEN AsList(Prop(node, "from")) ELSE << >>

\* the projection is '*' or holds an item tagged star
StarProjection(node) ==
  \/ Is(Prop(node, "columns"), N_STAR)
  \/ /\ Prop(node, "columns").t = "array"
     /\ \E c \in Range(Prop(node, "columns").v) : Is(Prop(Prop(c, "expr"), "type"), N_star)

\* the queries in the FROM clause of a select
FromSubqueries(node) ==
  {Prop(Prop(f, "expr"), "ast") : f \in {g \in Range(FromItems(node)) : Truthy(Prop(Prop(g, "expr"), "ast"))}}

\* the node, or a select nested in it through FROM clauses only, projects *
RECURSIVE StarWithin(_)
StarWithin(node) ==
  /\ Is(Prop(node, "type"), N_select)
  /\ (StarProjection(node) \/ \E q \in FromSubqueries(node) : StarWithin(q))

\* C17: select-star is returned iff a statement, or a select nested in it
\* at any depth through FROM subqueries, has the projection '*' or a column
\* item tagged star; the query SELECT * FROM t, once parsed, gives it
C17_SelectStar ==
  (Returned /\ trace.ranRules) =>
    /\ ("select-star" \in Ids(trace.findings)) <=> (\E n \in SelectStatements(trace.ast) : StarWithin(n))
    /\ (trace.input = Q_SELECT_STAR /\ ~IsNil(trace.ast)) => "select-star" \in Ids(trace.findings)

\* a select * two FROM clauses below a statement that projects a column
C17_Witness ==
  /\ Returned
  /\ "select-star" \in Ids(trace.findings)
  /\ ~StarProjection(trace.ast)
  /\ \A q \in FromSubqueries(trace.ast) : ~StarProjection(q)
  /\ \E q \in FromSubqueries(trace.ast) : \E r \in FromSubqueries(q) : StarProjection(r)

HasFinding(fs, id, severity) ==
  \E k \in 1..Len(fs) : fs[k].ruleId = id /\ fs[k].severity = severity

\* C18: order-without-limit (warning) is returned iff a statement has an
\* ordering clause and no row limit; SELECT a FROM t ORDER BY a, once
\* parsed, gives it and the same query with LIMIT 10 does not
C18_OrderWithoutLimit ==
  (Returned /\ trace.ranRules) =>
    /\ ("order-without-limit" \in Ids(trace.findings)) <=>
         (\E n \in SelectStatements(trace.ast) : Truthy(Prop(n, "orderby")) /\ ~Truthy(Prop(n, "limit")))
    /\ ("order-without-limit" \in Ids(trace.findings)) <=>
         HasFinding(trace.findings, "order-without-limit", "warning")
    /\ (trace.input = Q_ORDER_BY /\ ~IsNil(trace.ast)) => "order-without-limit" \in Ids(trace.findings)
    /\ trace.input = Q_ORDER_BY_LIMIT => "order-without-limit" \notin Ids(trace.findings)

\* the query with LIMIT 10 is parsed: its ordering clause is not reported
C18_Witness ==
  /\ Returned
  /\ trace.input = Q_ORDER_BY_LIMIT
  /\ Truthy(Prop(trace.ast, "orderby")) /\ Truthy(Prop(trace.ast, "limit"))
  /\ "order-without-limit" \notin Ids(trace.findings)

\* the join kinds of the FROM items of a select
Joined(node) == {f \in Range(FromItems(node)) : Truthy(Prop(f, "join"))}

ImplicitCrossJoin(node) ==
  Len(FromItems(node)) >= 2 /\ Joined(node) = {} /\ ~Truthy(Prop(node, "where"))

JoinWithoutOn(node) ==
  \E f \in Joined(node) : ~Is(Prop(f, "join"), N_CROSS_JOIN) /\ ~Truthy(Prop(f, "on"))

CrossJoined(node) == \E f \in Joined(node) : Is(Prop(f, "join"), N_CROSS_JOIN)

\* C19: implicit-cross-join (error) is returned iff a statement has two or
\* more FROM items, none with a join kind, and no WHERE clause;
\* join-without-on (warning) iff a FROM item has a join kind other than
\* CROSS JOIN and no ON condition; an item joined with CROSS JOIN gives
\* cross-join (warning) and no join-without-on; SELECT * FROM a, b, once
\* parsed, gives implicit-cross-join and the same query with WHERE does not
C19_JoinConditions ==
  (Returned /\ trace.ranRules) =>
    LET fs == trace.findings
        stmts == SelectStatements(trace.ast)
    IN  /\ ("implicit-cross-join" \in Ids(fs)) <=> (\E n \in stmts : ImplicitCrossJoin(n))
        /\ ("implicit-cross-join" \in Ids(fs)) <=> HasFinding(fs, "implicit-cross-join", "error")
        /\ ("join-without-on" \in Ids(fs)) <=> (\E n \in stmts : JoinWithoutOn(n))
        /\ ("join-without-on" \in Ids(fs)) <=> HasFinding(fs, "join-without-on", "warning")
        /\ (\E n \in stmts : CrossJoined(n)) => HasFinding(fs, "cross-join", "warning")
        /\ (\A n \in stmts : \A f \in Joined(n) : Is(Prop(f, "join"), N_CROSS_JOIN))
             => "join-without-on" \notin Ids(fs)
        /\ (trace.input = Q_COMMA_JOIN /\ ~IsNil(trace.ast)) => "implicit-cross-join" \in Ids(fs)
        /\ trace.input = Q_COMMA_JOIN_WHERE => "implicit-cross-join" \notin Ids(fs)

\* SELECT * FROM a, b WHERE a.id = b.id is parsed: two FROM items without a
\* join kind and no implicit-cross-join
C19_Witness ==
  /\ Returned
  /\ trace.input = Q_COMMA_JOIN_WHERE
  /\ Len(FromItems(trace.ast)) = 2 /\ Joined(trace.ast) = {}
  /\ "implicit-cross-join" \notin Ids(trace.findings)

\* the queries within an expression: the expression itself, its operands
\* at any depth, the arguments of a function and the expressions in them
RECURSIVE SubqueriesIn(_)
SubqueriesIn(expr) ==
  IF expr.t # "object" THEN {}
  ELSE (IF Truthy(Prop(expr, "ast")) THEN {Prop(expr, "ast")} ELSE {})
         \cup SubqueriesIn(Prop(expr, "left"))
         \cup SubqueriesIn(Prop(expr, "right"))
         \cup UNION {SubqueriesIn(a) : a \in Range(AsList(Prop(Prop(expr, "args"), "expr")))}

\* a select is reached at depth 3 or more from the select `node` at depth d
RECURSIVE DeepFrom(_, _)
DeepFrom(node, d) ==
  /\ Is(Prop(node, "type"), N_select)
  /\ \/ d >= 3
     \/ \E q \in FromSubqueries(node) \cup SubqueriesIn(Prop(node, "where")) : DeepFrom(q, d + 1)

\* C20: deeply-nested-subquery is returned iff a select is reached at depth
\* 3 or more, the statement being at depth 0 and each step into a query of
\* a FROM clause or of an expression (an operand at any depth, an argument
\* of a function, an expression within an argument) adding 1
C20_DeeplyNested ==
  (Returned /\ trace.ranRules) =>
    (("deeply-nested-subquery" \in Ids(trace.findings)) <=>
       (\E n \in SelectStatements(trace.ast) : DeepFrom(n, 0)))

\* the queries nested directly in a select: in its FROM clause and in the
\* expressions of its WHERE clause
NestedIn(node) == FromSubqueries(node) \cup SubqueriesIn(Prop(node, "where"))

\* the select `node` and the selects nested in it at any depth
RECURSIVE SelectsWithin(_)
SelectsWithin(node) ==
  IF ~Is(Prop(node, "type"), N_select) THEN {}
  ELSE {node} \cup UNION {SelectsWithin(q) : q \in NestedIn(node)}

\* the select has an ordering clause and no row limit
UnboundedSort(node) == Truthy(Prop(node, "orderby")) /\ ~Truthy(Prop(node, "limit"))

\* C21: each tree rule (star expansion, unbounded sort, cross join, missing
\* join condition) reports its anti-pattern also when only a nested query
\* has it: a query of a FROM clause, or of WHERE or another expression,
\* arguments of functions included
C21_RulesRecurse ==
  (Returned /\ trace.ranRules) =>
    LET Reported(fs, selects) ==
          /\ (\E q \in selects : StarProjection(q)) => "select-star" \in Ids(fs)
          /\ (\E q \in selects : UnboundedSort(q)) => "order-without-limit" \in Ids(fs)
          /\ (\E q \in selects : CrossJoined(q)) => "cross-join" \in Ids(fs)
          /\ (\E q \in selects : ImplicitCrossJoin(q)) => "implicit-cross-join" \in Ids(fs)
          /\ (\E q \in selects : JoinWithoutOn(q)) => "join-without-on" \in Ids(fs)
    IN  Reported(trace.findings, UNION {SelectsWithin(n) : n \in SelectStatements(trace.ast)})

\* a LIKE whose pattern literal begins with % at position i
LeadingWildcard(s, i) == Ch(s, Ch(s, Spaces1(s, Lit(s, i, W_LIKE)), "'"), "%")

\* C22: leading-wildcard-like (warning) is returned iff the text holds a
\* LIKE whose pattern begins with %, whether or not the pattern also ends
\* with %; a pattern without a leading % never gives it
C22_LeadingWildcardLike ==
  Returned =>
    /\ ("leading-wildcard-like" \in Ids(trace.findings))
         <=> Occurrences(Ends(trace.input, LeadingWildcard)) > 0
    /\ ("leading-wildcard-like" \in Ids(trace.findings))
         <=> HasFinding(trace.findings, "leading-wildcard-like", "warning")

\* the whole word PIVOT at position i
PivotWord(s, i) ==
  IF /\ ~IsWordCh(At(s, i - 1))
     /\ toUpperCase(slice(s, i, i + 5)) = W_PIVOT
     /\ ~IsWordCh(At(s, i + 5))
    THEN i + 5 ELSE -1

\* C23: non-spillable-pivot (error) is returned iff the text holds the
\* whole word PIVOT, also next to an UNPIVOT clause and without USING; a
\* text whose only reshape clause is UNPIVOT does not give it
C23_PivotClause ==
  Returned =>
    /\ ("non-spillable-pivot" \in Ids(trace.findings))
         <=> Occurrences(Ends(trace.input, PivotWord)) > 0
    /\ ("non-spillable-pivot" \in Ids(trace.findings))
         <=> HasFinding(trace.findings, "non-spillable-pivot", "error")

\* ORDER BY <column> DESC LIMIT 1 at position i, with any white space
\* between the words
LatestRow(s, i) ==
  LET Desc(c) == Lit(s, Spaces1(s, c), W_DESC)
      Column(o) == Desc(ColumnName(s, o))
  IN  B(s, Ch(s, Spaces1(s, Lit(s, Spaces1(s, Column(Spaces1(s, Lit(s, Spaces1(s, Lit(s, i, W_ORDER)), W_BY)))), W_LIMIT)), "1"))

\* C24: repeated-order-limit-1 (warning) is returned iff ORDER BY <column>
\* DESC LIMIT 1 occurs at least twice in the text, whatever white space
\* (spaces or a line break) separates DESC from LIMIT; the message carries
\* the number of occurrences
C24_RepeatedOrderLimit ==
  Returned =>
    LET Of(fs, n) ==
          /\ ("repeated-order-limit-1" \in Ids(fs)) <=> n >= 2
          /\ \A k \in 1..Len(fs) :
               fs[k].ruleId = "repeated-order-limit-1" =>
                 fs[k].severity = "warning" /\ fs[k].message.args = << n >>
    IN  Of(trace.findings, Occurrences(Ends(trace.input, LatestRow)))

\* the text rules the project's rule table lists, each with the severities
\* it lists for the rule
Catalogue ==
  { << "non-spillable-list", {"error"} >>,
    << "non-spillable-list-distinct", {"error"} >>,
    << "non-spillable-string-agg", {"warning"} >>,
    << "non-spillable-ordered-agg", {"warning"} >>,
    << "non-spillable-median", {"warning"} >>,
    << "non-spillable-pivot", {"error"} >>,
    << "many-blocking-operators", {"warning", "error"} >>,
    << "window-no-partition", {"warning"} >>,
    << "unnest-large-expansion", {"warning"} >>,
    << "recursive-cte-no-limit", {"warning"} >>,
    << "ctas-memory", {"info"} >>, << "distinct-star", {"warning"} >>,
    << "count-distinct", {"info"} >>, << "insert-select-star", {"info"} >>,
    << "many-ctes", {"info", "warning"} >>, << "list-transform", {"info"} >>,
    << "md-duckling-size", {"info"} >>,
    << "leading-wildcard-like", {"warning"} >>,
    << "function-on-filter-column", {"warning"} >>,
    << "repeated-order-limit-1", {"warning"} >>,
    << "use-arg-max", {"info"} >>, << "not-in-subquery", {"warning"} >>,
    << "correlated-subquery", {"error"} >>,
    << "large-in-list", {"warning"} >>,
    << "cast-in-join-key", {"warning"} >>, << "glob-many-files", {"info"} >>,
    << "temporal-join-via-window", {"info"} >>,
    << "chained-select-star", {"info"} >>,
    << "intermediate-order-by", {"info"} >>,
    << "self-join-as-window", {"info"} >>,
    << "repeated-table-scan", {"info"} >>,
    << "large-offset-pagination", {"warning"} >>,
    << "regexp-for-simple-pattern", {"info"} >>,
    << "copy-to-no-compression", {"info"} >>,
    << "remote-file-select-star", {"error"} >>,
    << "md-local-remote-transfer", {"warning"} >>,
    << "read-remote-no-filter", {"warning"} >>,
    << "multiple-remote-scans", {"warning"} >>,
    << "read-parquet-no-hive", {"info"} >>,
    << "md-cross-database-join", {"info"} >>,
    << "union-without-all", {"info"} >>,
    << "window-without-qualify", {"info"} >>,
    << "group-by-verbose", {"info"} >>,
    << "many-left-join-on-true", {"info"} >>,
    << "or-chain-instead-of-in", {"info"} >>,
    << "between-timestamp", {"info"} >>,
    << "case-when-instead-of-filter", {"info"} >>,
    << "like-prefix-use-starts-with", {"info"} >>,
    << "large-case-chain", {"info"} >>, << "group-by-ordinal", {"info"} >>,
    << "string-concat-null", {"info"} >>,
    << "count-col-vs-count-star", {"info"} >>,
    << "excessive-casts", {"info"} >>,
    << "heavy-json-extraction", {"warning"} >>,
    << "moderate-json-extraction", {"info"} >>,
    << "json-each-expansion", {"warning"} >>,
    << "json-array-extract", {"info"} >>,
    << "timestamp-vs-timestamptz", {"warning"} >> }

CatalogueIds == {c[1] : c \in Catalogue}

\* C25: every rule of the rule table is a rule analyze can report, with a
\* severity the table lists for it, and analyze returns no rule id outside
\* the table and the six tree rules
C25_CatalogueReachable ==
  /\ CatalogueIds \subseteq Range(PatternIds)
  /\ Returned =>
       \A k \in 1..Len(trace.findings) :
         \/ IsStructural(trace.findings[k].ruleId)
         \/ \E c \in Catalogue :
              c[1] = trace.findings[k].ruleId /\ trace.findings[k].severity \in c[2]

\* C26: the fragment of a finding, when present, is a literal substring of
\* the analysed text up to letter case, so that a case-insensitive search
\* of the text finds it; stated for the findings of the text rules, whose
\* fragments are computed from the text alone
C26_FragmentInText ==
  Returned =>
    \A k \in 1..Len(trace.findings) :
      (~IsStructural(trace.findings[k].ruleId) /\ trace.findings[k].fragment # None) =>
        includes(toLowerCase(trace.input), toLowerCase(trace.findings[k].fragment[1]))

(***************************************************************************)
(* components/HighlightedSql.tsx: buildSegments                            *)
(***************************************************************************)
\* `if (f.fragment)`: the fragment is present and not the empty string
HasFragment(f) == f.fragment # None /\ f.fragment[1] # << >>

\* the locals of buildSegments(sql, findings) when it is entered: f is the
\* position of the for loop in findings
buildStart(findings) ==
  [done |-> FALSE, findings |-> findings, f |-> 1, searchFrom |-> 0,
   ranges |-> << >>, cleaned |-> << >>, segments |-> << >>]

\* the while loop resuming one character after the start of the match
scanStep_overlapping(r, text) ==
  LET Found(f, idx) ==
        IF idx = -1 THEN [r EXCEPT !.f = @ + 1, !.searchFrom = 0]
        ELSE [r EXCEPT !.ranges = Append(@, [start |-> idx, end |-> idx + Len(f.fragment[1]),
                                             finding |-> f]),
                       !.searchFrom = idx + 1]
      Of(f) ==
        IF HasFragment(f)
          THEN IF r.searchFrom < Len(text)
                 THEN Found(f, indexOf(toLowerCase(text), toLowerCase(f.fragment[1]), r.searchFrom))
                 ELSE [r EXCEPT !.f = @ + 1, !.searchFrom = 0]
        ELSE IF f.offset # None
          THEN [r EXCEPT !.ranges = Append(@, [start |-> f.offset[1].start, end |-> f.offset[1].end,
                                               finding |-> f]),
                         !.f = @ + 1]
        ELSE [r EXCEPT !.f = @ + 1]
  IN  Of(r.findings[r.f])

\* one step of `for (const f of findings)`: an iteration of the while loop
\* of the finding f (a range pushed and searchFrom moved to its end, or the
\* loop left), or the range of its offset pushed, or nothing
scanStep(r, text) ==
  LET Found(f, idx) ==
        IF idx = -1 THEN [r EXCEPT !.f = @ + 1, !.searchFrom = 0]
        ELSE [r EXCEPT !.ranges = Append(@, [start |-> idx, end |-> idx + Len(f.fragment[1]),
                                             finding |-> f]),
                       !.searchFrom = idx + Len(f.fragment[1])]
      Of(f) ==
        IF HasFragment(f)
          THEN IF r.searchFrom < Len(text)
                 THEN Found(f, indexOf(toLowerCase(text), toLowerCase(f.fragment[1]), r.searchFrom))
                 ELSE [r EXCEPT !.f = @ + 1, !.searchFrom = 0]
        ELSE IF f.offset # None
          THEN [r EXCEPT !.ranges = Append(@, [start |-> f.offset[1].start, end |-> f.offset[1].end,
                                               finding |-> f]),
                         !.f = @ + 1]
        ELSE [r EXCEPT !.f = @ + 1]
  IN  Of(r.findings[r.f])

\* ranges.sort((a, b) => a.start - b.start): ranges of equal start keep
\* their order
RECURSIVE sortByStart(_)
sortByStart(ranges) ==
  IF ranges = << >> THEN << >>
  ELSE LET Insert(r, sorted, n) ==
             SubSeq(sorted, 1, n) \o << r >> \o SubSeq(sorted, n + 1, Len(sorted))
           Place(r, sorted) ==
             Insert(r, sorted, Cardinality({j \in 1..Len(sorted) : sorted[j].start < r.start}))
       IN  Place(Head(ranges), sortByStart(Tail(ranges)))

\* a range is kept whatever ended before it
removeOverlaps_none(ranges, lastEnd) == ranges

\* "Remove overlaps (keep earlier ones)": the loop over the sorted ranges
RECURSIVE removeOverlaps(_, _)
removeOverlaps(ranges, lastEnd) ==
  IF ranges = << >> THEN << >>
  ELSE IF Head(ranges).start >= lastEnd
    THEN << Head(ranges) >> \o removeOverlaps(Tail(ranges), Head(ranges).end)
  ELSE removeOverlaps(Tail(ranges), lastEnd)

\* "Build segments": the loop over the cleaned ranges and the tail
RECURSIVE segmentsFrom(_, _, _)
segmentsFrom(text, cleaned, cursor) ==
  IF cleaned = << >>
    THEN IF cursor < Len(text)
           THEN << [text |-> slice(text, cursor, Len(text)), finding |-> None] >>
           ELSE << >>
  ELSE (IF Head(cleaned).start > cursor
          THEN << [text |-> slice(text, cursor, Head(cleaned).start), finding |-> None] >>
          ELSE << >>)
       \o << [text |-> slice(text, Head(cleaned).start, Head(cleaned).end),
              finding |-> Some(Head(cleaned).finding)] >>
       \o segmentsFrom(text, Tail(cleaned), Head(cleaned).end)

\* the rest of buildSegments once the for loop is over
buildRest(r, text) ==
  LET Segments(cleaned, sorted) ==
        [r EXCEPT !.done = TRUE, !.ranges = sorted, !.cleaned = cleaned,
                  !.segments = segmentsFrom(text, cleaned, 0)]
      Cleaned(sorted) == Segments(removeOverlaps(sorted, 0), sorted)
  IN  Cleaned(sortByStart(r.ranges))

\* buildSegments as a whole
RECURSIVE buildLoop(_, _)
buildLoop(r, text) ==
  IF r.f <= Len(r.findings) THEN buildLoop(scanStep(r, text), text) ELSE buildRest(r, text)

buildSegments(text, findings) == buildLoop(buildStart(findings), text).segments

(***************************************************************************)
(* buildSegments called on a text and a list of findings                   *)
(***************************************************************************)
\* the most findings handed to buildSegments
MaxFindings == 2

F_CROSS_UPPER == << "x"," ","C","R","O","S","S"," ","J","O","I","N"," ","y"," " >>

F_CROSS_MIXED == << "z"," ","c","r","o","s","s"," ","J","o","i","n"," ","w"," " >>

F_STAR == << "S","E","L","E","C","T"," ","*"," " >>

F_AS == << "a","a","a","a","a" >>

SegmentPieces == {<< >>, F_CROSS_UPPER, F_CROSS_MIXED, F_STAR, F_AS}

SegmentTexts == {a \o b : a \in {<< >>, F_CROSS_UPPER, F_STAR}, b \in SegmentPieces}

\* a finding located by its offset alone
Located(ruleId, start, end) ==
  [finding(ruleId, "info", Txt(<< >>), Txt(<< >>), "performance", None)
     EXCEPT !.offset = Some([start |-> start, end |-> end])]

SegmentFindings ==
  { finding("cross-join", "warning", Txt(<< >>), Txt(<< >>), "memory", Some(N_CROSS_JOIN)),
    finding("select-star", "warning", Txt(<< >>), Txt(<< >>), "performance", Some(N_SELECT_STAR)),
    finding("distinct-star", "warning", Txt(<< >>), Txt(<< >>), "memory", Some(N_STAR)),
    finding("count-distinct", "info", Txt(<< >>), Txt(<< >>), "memory", Some(<< "a","A" >>)),
    finding("many-ctes", "info", Txt(<< >>), Txt(<< >>), "memory", None),
    Located("excessive-casts", 1, 3),
    Located("large-in-list", 2, 9) }

\* the lists of at most n findings of distinct rules
RECURSIVE FindingLists(_)
FindingLists(n) ==
  IF n = 0 THEN {<< >>}
  ELSE FindingLists(n - 1) \cup
       {Append(fs, f) : fs \in {l \in FindingLists(n - 1) : Len(l) = n - 1},
                        f \in SegmentFindings}

DistinctRules(fs) == \A i, j \in 1..Len(fs) : fs[i].ruleId = fs[j].ruleId => i = j

InitSegments ==
  /\ sql \in SegmentTexts
  /\ render \in {buildStart(fs) : fs \in {l \in FindingLists(MaxFindings) : DistinctRules(l)}}
  /\ result = None
  /\ parser = << >>
  /\ lastIndex = [groupByPattern |-> 0]
  /\ trace = NoTrace
  /\ history = {}
  /\ replacing = Idle

\* the for loop of buildSegments takes a step
Scan ==
  /\ ~render.done
  /\ render.f <= Len(render.findings)
  /\ render' = scanStep(render, sql)
  /\ UNCHANGED << sql, result, parser, lastIndex, trace, history, replacing >>

\* the ranges are sorted and cleaned, the segments built and returned
Build ==
  /\ ~render.done
  /\ render.f > Len(render.findings)
  /\ render' = buildRest(render, sql)
  /\ UNCHANGED << sql, result, parser, lastIndex, trace, history, replacing >>

NextSegments == Scan \/ Build

SpecSegments == InitSegments /\ [][NextSegments]_vars

\* buildSegments has returned
Built == render # Idle /\ render.done

\* the ranges found for the finding f, in the order of their start
RangesOf(f) == SelectSeq(render.ranges, LAMBDA r : r.finding = f)

\* ranges is the scan from left to right of text for fragment, resumed at
\* the end of each match: every range is an occurrence, whatever the case
\* of its letters, of the length of the fragment and within the text; a
\* range starts at or after the end of the one before; and an occurrence
\* that is no range starts inside a range
LocatedAll(ranges, text, fragment) ==
  /\ \A j \in 1..Len(ranges) :
       /\ 0 <= ranges[j].start
       /\ ranges[j].end <= Len(text)
       /\ ranges[j].end - ranges[j].start = Len(fragment)
       /\ toLowerCase(slice(text, ranges[j].start, ranges[j].end)) = toLowerCase(fragment)
  /\ \A j \in 1..(Len(ranges) - 1) : ranges[j + 1].start >= ranges[j].end
  /\ \A p \in 0..Len(text) :
       HasAt(toLowerCase(text), p, toLowerCase(fragment)) =>
         \E j \in 1..Len(ranges) : ranges[j].start <= p /\ p < ranges[j].end

\* a step of the scan moves to the next finding, or stays on the finding
\* and moves searchFrom forward; a call that has gone through the findings
\* returns with its next step
ScanAdvances ==
  /\ (~render.done /\ ~render'.done) =>
       \/ render'.f > render.f
       \/ render'.f = render.f /\ render'.searchFrom > render.searchFrom
  /\ (~render.done /\ render.f > Len(render.findings)) => render'.done

\* searchFrom stays within the text and f within the findings, so that the
\* scan cannot advance for ever
ScanBounded ==
  render # Idle =>
    /\ render.searchFrom <= Len(sql)
    /\ render.f <= Len(render.findings) + 1

\* C27: for a finding with a non-empty fragment the highlighter locates
\* every non-overlapping occurrence of the fragment in the text, whatever
\* the case of the letters, from left to right, resuming at the end of each
\* match; each range has the length of the fragment and lies within the
\* text; two occurrences of cross join in varied case, with the fragment
\* CROSS JOIN, give exactly two ranges; and the scan terminates: every
\* step moves it forward within bounds
C27_LocateAll ==
  /\ [](Built =>
          \A k \in 1..Len(render.findings) :
            HasFragment(render.findings[k]) =>
              /\ LocatedAll(RangesOf(render.findings[k]), sql, render.findings[k].fragment[1])
              /\ (sql = F_CROSS_UPPER \o F_CROSS_MIXED /\ render.findings[k].fragment[1] = N_CROSS_JOIN)
                   => Len(RangesOf(render.findings[k])) = 2)
  /\ [][ScanAdvances]_vars
  /\ []ScanBounded

C27_Witness ==
  /\ Built
  /\ sql = F_CROSS_UPPER \o F_CROSS_MIXED
  /\ \E k \in 1..Len(render.findings) :
       /\ render.findings[k].fragment = Some(N_CROSS_JOIN)
       /\ Len(RangesOf(render.findings[k])) = 2
       /\ RangesOf(render.findings[k])[2].start = Len(F_CROSS_UPPER) + 2

\* the texts of the segments, one after the other
RECURSIVE SegmentsText(_)
SegmentsText(segments) ==
  IF segments = << >> THEN << >> ELSE Head(segments).text \o SegmentsText(Tail(segments))

\* every range lies within the text
RangesInText == \A j \in 1..Len(render.ranges) :
  /\ 0 <= render.ranges[j].start
  /\ render.ranges[j].start <= render.ranges[j].end
  /\ render.ranges[j].end <= Len(sql)

Overlap(a, b) == a.start < b.end /\ b.start < a.end

Kept(r) == r \in Range(render.cleaned)

\* the segments put together are the text, and the highlighted segments are
\* the kept ranges, which follow one another without overlap
SegmentsCoverText ==
  /\ SegmentsText(render.segments) = sql
  /\ \A j \in 1..(Len(render.cleaned) - 1) :
       render.cleaned[j + 1].start >= render.cleaned[j].end
  /\ SelectSeq(render.segments, LAMBDA g : g.finding # None)
       = [j \in 1..Len(render.cleaned) |->
            [text |-> slice(sql, render.cleaned[j].start, render.cleaned[j].end),
             finding |-> Some(render.cleaned[j].finding)]]

replaceStart(s, funcName, replacement) ==
  [done |-> FALSE, s |-> s, funcName |-> funcName, replacement |-> replacement,
   lastIndex |-> 0]

\* an iteration that searches again from the start of the replacement
replaceStep_rescan(c) ==
  LET Scanned(ends, start, scan) ==
        IF scan.depth = 0
          THEN [c EXCEPT !.s = slice(c.s, 0, start) \o c.replacement \o slice(c.s, scan.i, Len(c.s)),
                         !.lastIndex = start]
        ELSE [c EXCEPT !.lastIndex = ends[start]]
      Matched(ends, start) ==
        IF start = -1 THEN [c EXCEPT !.done = TRUE, !.lastIndex = 0]
        ELSE Scanned(ends, start, scanParens(c.s, ends[start], 1))
      Exec(ends) == Matched(ends, FirstMatch(ends, c.lastIndex))
  IN  Exec(Ends(c.s, LAMBDA t, i : M_call(t, i, c.funcName)))

\* `while ((match = re.exec(s)) !== null) { ... }`: exec and, on a match,
\* the body of the loop; without a match the loop is left and s returned
replaceStep(c) ==
  LET Scanned(ends, start, scan) ==
        IF scan.depth = 0
          THEN [c EXCEPT !.s = slice(c.s, 0, start) \o c.replacement \o slice(c.s, scan.i, Len(c.s)),
                         !.lastIndex = start + Len(c.replacement)]
        ELSE [c EXCEPT !.lastIndex = ends[start]]
      Matched(ends, start) ==
        IF start = -1 THEN [c EXCEPT !.done = TRUE, !.lastIndex = 0]
        ELSE Scanned(ends, start, scanParens(c.s, ends[start], 1))
      Exec(ends) == Matched(ends, FirstMatch(ends, c.lastIndex))
  IN  Exec(Ends(c.s, LAMBDA t, i : M_call(t, i, c.funcName)))

InitReplace ==
  /\ replacing \in {replaceStart(s, p[1], p[2]) : s \in NestedCallTexts, p \in Replaced}
  /\ sql = << >>
  /\ result = None
  /\ parser = << >>
  /\ lastIndex = [groupByPattern |-> 0]
  /\ trace = NoTrace
  /\ history = {}
  /\ render = Idle

\* the loop of replaceBalancedCall takes a step
Replace ==
  /\ ~replacing.done
  /\ replacing' = replaceStep(replacing)
  /\ UNCHANGED << sql, result, parser, lastIndex, trace, history, render >>

SpecReplace == InitReplace /\ [][Replace]_vars

\* the first call of the function f in s at or after position from, or -1
NextCallOf(s, f, from) ==
  LET First(hits) == IF hits = {} THEN -1 ELSE CHOOSE i \in hits : \A j \in hits : i <= j
  IN  First({i \in from..Len(s) : CallOpen(s, i, f) >= 0})

\* what an iteration on the call at position start of c.s must leave in d:
\* the call replaced whole and the search resumed after the replacement
\* when the parenthesis opened at position open is closed, at position j;
\* the text as it was and the search resumed after the opening parenthesis
\* when it never is
IterationOn(c, d, start, open) ==
  IF \E j \in open..(Len(c.s) - 1) : Closes(c.s, open, j)
    THEN \E j \in open..(Len(c.s) - 1) :
           /\ Closes(c.s, open, j)
           /\ d.s = slice(c.s, 0, start) \o c.replacement \o slice(c.s, j + 1, Len(c.s))
           /\ d.lastIndex = start + Len(c.replacement)
    ELSE d.s = c.s /\ d.lastIndex = open + 1

\* an iteration of the loop, c before it and d after it: the position of
\* the next search has moved forward, the text left to search is shorter,
\* and the text before the position has not changed
Iteration(c, d) ==
  /\ d.lastIndex > c.lastIndex
  /\ Len(d.s) - d.lastIndex < Len(c.s) - c.lastIndex
  /\ slice(d.s, 0, c.lastIndex) = slice(c.s, 0, c.lastIndex)
  /\ LET On(start) ==
           start # -1 /\ IterationOn(c, d, start, CallOpen(c.s, start, c.funcName))
     IN  On(NextCallOf(c.s, c.funcName, c.lastIndex))

ReplaceAdvances ==
  /\ (~replacing.done /\ ~replacing'.done) => Iteration(replacing, replacing')
  /\ (~replacing.done /\ replacing'.done) =>
       /\ replacing'.s = replacing.s
       /\ NextCallOf(replacing.s, replacing.funcName, replacing.lastIndex) = -1

\* C28: replaceBalancedCall returns on every text: every iteration moves
\* the position of the next search forward and shortens the text left to
\* search, which is never negative, and the loop is left when no call is
\* found; a call whose parentheses never close is left as it is and the
\* search goes on after it; a replacement longer than the call is put in
\* place like any other; the text before the position of the next search,
\* the replacement included, is not changed again
C28_ReplaceTerminates ==
  /\ [][ReplaceAdvances]_vars
  /\ [](replacing # Idle => replacing.lastIndex <= Len(replacing.s))

\* LIST(z) has been replaced by the longer ARRAY_AGG(1), the search has gone
\* on behind it, and the call that never closes has been left in place
C28_Witness ==
  /\ replacing # Idle
  /\ replacing.done
  /\ replacing.funcName = W_LIST
  /\ replacing.s = N_ARRAY_AGG_1 \o << " ","+"," " >> \o << "l","i","s","t","(","(","e",")" >>

\* the result displayed is what analyze returned for the text in the editor
DisplayedIsCurrent ==
  result # None =>
    \E h \in history :
      /\ h.input = sql
      /\ ~h.raised
      /\ result[1] = [findings |-> h.findings, parseError |-> h.parseError]

\* C30: in the application, a result that is displayed is the result of
\* analyze for the text now in the editor, whatever was edited, analysed or
\* loaded before; loading an example clears the result; and Analyze on a
\* text of white space only leaves the result as it is
C30_ResultOfCurrentText ==
  /\ []DisplayedIsCurrent
  /\ [][(\E query \in EXAMPLE_QUERIES : HandleExample(query)) => result' = None]_vars
  /\ [][(trim(sql) = << >> /\ sql' = sql) => result' = result]_vars

=============================================================================
